---- MODULE Spec2Model ----
(***************************************************************************)
(* TigerTix: the ticket inventory (events table, purchaseTicket,           *)
(* confirmBooking, the admin event operations) and the refresh-token       *)
(* session lifecycle (register/login, refresh with rotation, logout,       *)
(* logout-all, cleanup), as state machines over the SQLite stores.         *)
(*                                                                         *)
(* Each request is a process whose steps are the database statements it    *)
(* issues; the JavaScript that runs in a statement's callback belongs to   *)
(* the step of that statement.  Statements of different requests           *)
(* interleave freely.                                                      *)
(***************************************************************************)
EXTENDS Integers, FiniteSets, Sequences, TLC

\* ---------------------------------------------------------------- bounds
MaxEvents == 1
MaxTickets == 2
NumBookings == 2
NumPurchases == 2
NumUsers == 2
MaxTokens == 3
MaxTime == 1
NumRefreshes == 3
NumLogouts == 2
NumLogoutAlls == 2
NumAuthenticates == 2
NumRegisters == 2
NumLogins == 2
MaxMessages == 4
NumFetches == 2

EventIds == 1..MaxEvents

\* The ids of the events table: those createEvent hands out, and one more event
\* that is on sale beside them where two events are sold at once.
OtherEvent == MaxEvents + 1

EventRows == EventIds \cup {OtherEvent}
Bookings == 1..NumBookings
Purchases == 1..NumPurchases
Users == 1..NumUsers
TokenIds == 1..MaxTokens
Refreshes == 1..NumRefreshes
Logouts == 1..NumLogouts
LogoutAlls == 1..NumLogoutAlls
Authenticates == 1..NumAuthenticates
Registers == 1..NumRegisters
Logins == 1..NumLogins
Calls == 1..NumFetches

\* The places of the conversation a confirmation prompt can stand at.
MessageIds == 1..(MaxMessages + 1)

VARIABLES
    events,         \* the events table: id -> row (present, total_tickets, available_tickets)
    nextEventId,    \* AUTOINCREMENT: the id the next INSERT into events gets
    tickets,        \* the tickets table: the purchase records
    req,            \* req.body of each confirm-booking request
    cb,             \* llmModel.confirmBooking requests, each on its own connection
    pt,             \* clientModel.purchaseTicket requests, all on the module-level connection
    users,          \* the users table: id -> "absent" | "active" | "inactive"
    accounts,       \* the users table: id -> the email and password_hash of the row
    refresh_tokens, \* the refresh_tokens table, and the tokens signed so far
    nextToken,      \* the next token generateRefreshToken signs (its jti is fresh)
    now,            \* the clock, in units of the refresh expiry window
    rf,             \* authController.refresh requests
    lo,             \* authController.logout requests
    la,             \* authController.logoutAll requests
    au,             \* requests passing the authenticate middleware
    rg,             \* authController.register requests
    lg,             \* authController.login requests
    messages,       \* ChatBot: the messages state, the conversation shown
    isLoading,      \* ChatBot: the isLoading state
    pendingBooking, \* ChatBot: the pendingBooking state
    chat,           \* ChatBot: the handler awaiting a response, and its data
    sent,           \* the confirm-booking requests the chat has posted, in order
    localStorage,   \* the browser's accessToken and refreshToken items
    af,             \* the running authenticatedFetch and refresh-interval calls
    outbox          \* the refresh requests the browser has posted, in order

ticketVars == <<events, nextEventId, tickets, req, cb, pt>>

authVars == <<users, accounts, refresh_tokens, nextToken, now, rf, lo, la, au, rg, lg>>

accountVars == <<accounts, rg, lg>>

chatVars == <<messages, isLoading, pendingBooking, chat, sent>>

storageVars == <<localStorage, af, outbox>>

clientVars == <<chatVars, storageVars>>

vars == <<events, nextEventId, tickets, req, cb, pt, users, accounts, refresh_tokens,
          nextToken, now, rf, lo, la, au, rg, lg, messages, isLoading, pendingBooking,
          chat, sent, localStorage, af, outbox>>

\* ------------------------------------------------------------ events table
NoRow == [present |-> FALSE, total_tickets |-> 0, available_tickets |-> 0]

EventRow(total, avail) ==
    [present |-> TRUE, total_tickets |-> total, available_tickets |-> avail]

\* SELECT * FROM events WHERE id = ?
EventAt(id) == IF id \in EventRows THEN events[id] ELSE NoRow

\* ----------------------------------------------------------- tickets table
\* The sum of the quantities of the purchase records of an event.  No statement
\* of the services inserts into, updates or deletes from the tickets table.
RECURSIVE QuantitySold(_, _)
QuantitySold(rows, eventId) ==
    IF rows = <<>> THEN 0
    ELSE (IF Head(rows).event_id = eventId THEN Head(rows).quantity ELSE 0)
         + QuantitySold(Tail(rows), eventId)

\* ------------------------------------------------ SQLite locks (journal mode)
\* A connection inside BEGIN ... COMMIT holds SHARED from its first SELECT and
\* RESERVED from its first write, until COMMIT or ROLLBACK (or close).
OthersReserved(c) == \E d \in Bookings : d # c /\ cb[d].lock = "reserved"

OthersReading(c) == \E d \in Bookings : d # c /\ cb[d].lock # "none"

\* An autocommit write on another connection needs EXCLUSIVE.
NoTransactionLock == \A d \in Bookings : cb[d].lock = "none"

\* ------------------------------------------------------- request bodies
\* A field of a JSON body: absent, a number, or a string (its characters).
Undefined == [type |-> "undefined", n |-> 0, s |-> <<>>]

Number(n) == [type |-> "number", n |-> n, s |-> <<>>]

String(s) == [type |-> "string", n |-> 0, s |-> s]

\* !value
Falsy(value) ==
    \/ value.type = "undefined"
    \/ value.type = "number" /\ value.n = 0
    \/ value.type = "string" /\ value.s = <<>>

NaN == [nan |-> TRUE, n |-> 0]

DigitValue ==
    [d \in {"0", "1", "2", "3", "4", "5", "6", "7", "8", "9"} |->
        CASE d = "0" -> 0 [] d = "1" -> 1 [] d = "2" -> 2 [] d = "3" -> 3
          [] d = "4" -> 4 [] d = "5" -> 5 [] d = "6" -> 6 [] d = "7" -> 7
          [] d = "8" -> 8 [] d = "9" -> 9]

RECURSIVE SkipWhiteSpace(_)
SkipWhiteSpace(s) ==
    IF s # <<>> /\ Head(s) = " " THEN SkipWhiteSpace(Tail(s)) ELSE s

\* The value of the longest prefix of digits of s, after the digits read so far.
RECURSIVE ParseDigits(_, _)
ParseDigits(s, read) ==
    IF s # <<>> /\ Head(s) \in DOMAIN DigitValue
    THEN ParseDigits(Tail(s), read * 10 + DigitValue[Head(s)])
    ELSE read

\* parseInt(value, 10): the value as a string, leading white space skipped, a
\* sign, then digits up to the first character that is none; NaN without one.
ParseInt(value) ==
    IF value.type = "undefined" THEN NaN
    ELSE IF value.type = "number" THEN [nan |-> FALSE, n |-> value.n]
    ELSE LET t == SkipWhiteSpace(value.s)
             signed == t # <<>> /\ Head(t) \in {"+", "-"}
             digits == IF signed THEN Tail(t) ELSE t
         IN  IF digits = <<>> \/ Head(digits) \notin DOMAIN DigitValue
             THEN NaN
             ELSE [nan |-> FALSE,
                   n |-> IF signed /\ Head(t) = "-"
                         THEN 0 - ParseDigits(digits, 0)
                         ELSE ParseDigits(digits, 0)]

\* The bodies sent: well-formed ones, and every combination of raw fields.
BodiesFor(E) ==
    {[event_id |-> Number(e), tickets |-> Number(q)] :
        e \in E, q \in 1..MaxTickets}

NumericBodies == BodiesFor(EventIds)

RawStrings == {<<>>, <<"a", "b", "c">>, <<"0">>, <<"1">>, <<"-", "1">>, <<"1", "x">>}

RawValues ==
    {Undefined} \cup {Number(n) : n \in (0 - 1)..MaxTickets}
                \cup {String(s) : s \in RawStrings}

Bodies == [event_id : RawValues, tickets : RawValues]

ValidationErrors == {"event_id and tickets are required",
                     "Invalid event_id or ticket count"}

\* --------------------------------------------------------- confirmBooking
CbIdle ==
    [pc |-> "idle", eventId |-> 0, ticketCount |-> 0, lock |-> "none",
     txn |-> FALSE, pending |-> 0, rollback |-> "none",
     outcome |-> "none", remaining |-> 0]

\* A statement fails with SQLITE_BUSY when the locks of other connections stand
\* in its way, and may fail at any time with an I/O error of the store.
NoErr == "none"

IoFaults == {NoErr, "SQLITE_IOERR"}

CommitFaults == {NoErr, "SQLITE_BUSY", "SQLITE_IOERR"}

StoreErrors == {"SQLITE_BUSY", "SQLITE_IOERR"}

CbErrors == {"Event not found", "Not enough tickets",
             "Failed to update ticket count"} \cup StoreErrors

\* The row as the table has it, the connection's own write left unseen.
CbViewCommitted(c) == events[cb[c].eventId]

\* The row as connection c sees it: its own uncommitted write, else the table.
CbView(c) ==
    IF cb[c].lock = "reserved"
    THEN [events[cb[c].eventId] EXCEPT !.available_tickets = cb[c].pending]
    ELSE events[cb[c].eventId]

\* db.run('ROLLBACK', () => db.close()); return reject(error)
CbReject(c, error, remaining) ==
    cb' = [cb EXCEPT ![c].pc = "rollback", ![c].rollback = "queued",
                     ![c].outcome = error, ![c].remaining = remaining]

\* llmModel.confirmBooking(eventId, ticketCount): a connection is opened.
CbRequest(c, eventId, ticketCount) ==
    /\ cb[c].pc = "idle"
    /\ cb' = [cb EXCEPT ![c].pc = "begin", ![c].eventId = eventId,
                        ![c].ticketCount = ticketCount]
    /\ UNCHANGED <<events, nextEventId, pt, tickets, authVars, clientVars>>

CbBegin(c, err) ==
    /\ cb[c].pc = "begin"
    /\ IF err # NoErr
       THEN cb' = [cb EXCEPT ![c].pc = "done", ![c].outcome = err]
       ELSE cb' = [cb EXCEPT ![c].pc = "select", ![c].txn = TRUE]
    /\ UNCHANGED <<events, nextEventId, pt, tickets, req, authVars, clientVars>>

CbSelect(c, selectErr) ==
    /\ cb[c].pc = "select"
    /\ LET event == EventAt(cb[c].eventId) IN
       IF selectErr # NoErr
       THEN CbReject(c, selectErr, 0)
       ELSE IF ~event.present
       THEN cb' = [cb EXCEPT ![c].pc = "rollback", ![c].rollback = "queued",
                             ![c].lock = "shared",
                             ![c].outcome = "Event not found"]
       ELSE IF event.available_tickets < cb[c].ticketCount
       THEN cb' = [cb EXCEPT ![c].pc = "rollback", ![c].rollback = "queued",
                             ![c].lock = "shared",
                             ![c].outcome = "Not enough tickets",
                             ![c].remaining = event.available_tickets]
       ELSE cb' = [cb EXCEPT ![c].pc = "update", ![c].lock = "shared"]
    /\ UNCHANGED <<events, nextEventId, pt, tickets, req, authVars, clientVars>>

CbUpdate(c, updateErr) ==
    /\ cb[c].pc = "update"
    /\ IF OthersReserved(c)
       THEN CbReject(c, "SQLITE_BUSY", 0)
       ELSE IF updateErr # NoErr
       THEN CbReject(c, updateErr, 0)
       ELSE IF ~CbView(c).present
       THEN cb' = [cb EXCEPT ![c].pc = "rollback", ![c].rollback = "queued",
                             ![c].lock = "reserved",
                             ![c].outcome = "Failed to update ticket count"]
       ELSE cb' = [cb EXCEPT ![c].pc = "reselect", ![c].lock = "reserved",
                             ![c].pending = CbView(c).available_tickets
                                            - cb[c].ticketCount]
    /\ UNCHANGED <<events, nextEventId, pt, tickets, req, authVars, clientVars>>

CbReselect(c, finalSelectErr) ==
    /\ cb[c].pc = "reselect"
    /\ IF finalSelectErr # NoErr
       THEN CbReject(c, finalSelectErr, 0)
       ELSE cb' = [cb EXCEPT ![c].pc = "commit",
                             ![c].remaining = CbView(c).available_tickets]
    /\ UNCHANGED <<events, nextEventId, pt, tickets, req, authVars, clientVars>>

\* COMMIT needs EXCLUSIVE: while another connection reads it waits, and gives
\* up with SQLITE_BUSY when the busy timeout runs out.
CbCommit(c, commitErr) ==
    /\ cb[c].pc = "commit"
    /\ commitErr = "SQLITE_BUSY" => OthersReading(c)
    /\ IF commitErr # NoErr
       THEN /\ cb' = [cb EXCEPT ![c].pc = "close", ![c].outcome = commitErr]
            /\ UNCHANGED events
       ELSE /\ ~OthersReading(c)
            /\ events' = [events EXCEPT ![cb[c].eventId] = CbView(c)]
            /\ cb' = [cb EXCEPT ![c].pc = "done", ![c].lock = "none",
                                ![c].txn = FALSE, ![c].pending = 0,
                                ![c].outcome = "ok"]
    /\ UNCHANGED <<nextEventId, pt, tickets, req, authVars, clientVars>>

\* The queued ROLLBACK runs, then its callback closes the connection.
CbRollback(c) ==
    /\ cb[c].pc = "rollback"
    /\ cb' = [cb EXCEPT ![c].pc = "done", ![c].lock = "none", ![c].txn = FALSE,
                        ![c].pending = 0, ![c].rollback = "done"]
    /\ UNCHANGED <<events, nextEventId, pt, tickets, req, authVars, clientVars>>

\* db.close() after a failed COMMIT: SQLite drops the open transaction.
CbClose(c) ==
    /\ cb[c].pc = "close"
    /\ cb' = [cb EXCEPT ![c].pc = "done", ![c].lock = "none", ![c].txn = FALSE,
                        ![c].pending = 0]
    /\ UNCHANGED <<events, nextEventId, pt, tickets, req, authVars, clientVars>>

\* The mapping without its 'Event not found' case.
CbStatusWithoutNotFound(outcome) ==
    IF outcome = "ok" THEN 200
    ELSE IF outcome \in ValidationErrors THEN 400
    ELSE IF outcome = "Not enough tickets" THEN 400
    ELSE 500

\* The second validation accepting a count of zero.
RejectedBelowZeroOnly(eventId, ticketCount) ==
    eventId.nan \/ ticketCount.nan \/ ticketCount.n < 0

\* isNaN(eventId) || isNaN(ticketCount) || ticketCount <= 0
Rejected(eventId, ticketCount) ==
    eventId.nan \/ ticketCount.nan \/ ticketCount.n <= 0

\* llmController.confirmBooking: the validation of req.body, then the call of
\* llmModel.confirmBooking.
ConfirmBooking(c, body) ==
    /\ cb[c].pc = "idle"
    /\ req' = [req EXCEPT ![c] = body]
    /\ IF Falsy(body.event_id) \/ Falsy(body.tickets)
       THEN /\ cb' = [cb EXCEPT ![c].pc = "done",
                                ![c].outcome = "event_id and tickets are required"]
            /\ UNCHANGED <<events, nextEventId, pt, tickets, authVars, clientVars>>
       ELSE IF Rejected(ParseInt(body.event_id), ParseInt(body.tickets))
       THEN /\ cb' = [cb EXCEPT ![c].pc = "done",
                                ![c].outcome = "Invalid event_id or ticket count"]
            /\ UNCHANGED <<events, nextEventId, pt, tickets, authVars, clientVars>>
       ELSE CbRequest(c, ParseInt(body.event_id).n, ParseInt(body.tickets).n)

\* llmController.confirmBooking: the status the error is reported with.
CbStatus(outcome) ==
    IF outcome = "ok" THEN 200
    ELSE IF outcome \in ValidationErrors THEN 400
    ELSE IF outcome = "Event not found" THEN 404
    ELSE IF outcome = "Not enough tickets" THEN 400
    ELSE 500

\* The body of the response to request r.  The text of 'Not enough tickets
\* available. Only N tickets remaining.' carries the count that was read.
CbResponse(r) ==
    IF r.outcome = "ok"
    THEN [success |-> TRUE, tickets_booked |-> r.ticketCount,
          remaining_tickets |-> r.remaining]
    ELSE IF r.outcome = "Not enough tickets"
    THEN [success |-> FALSE, error |-> r.outcome, remaining |-> r.remaining]
    ELSE IF r.outcome \in ValidationErrors \cup {"Event not found"}
    THEN [success |-> FALSE, error |-> r.outcome]
    ELSE [success |-> FALSE, error |-> "Failed to complete booking. Please try again."]

\* --------------------------------------------------------- purchaseTicket
PtIdle == [pc |-> "idle", eventID |-> 0, outcome |-> "none"]

\* A promise settles once: a later resolve or reject is ignored.
Settle(p, result) == IF pt[p].outcome = "none" THEN result ELSE pt[p].outcome

PtRequest(p, eventID) ==
    /\ pt[p].pc = "idle"
    /\ pt' = [pt EXCEPT ![p].pc = "select", ![p].eventID = eventID]
    /\ UNCHANGED <<events, nextEventId, cb, tickets, req, authVars, clientVars>>

PtSelect(p, err) ==
    /\ pt[p].pc = "select"
    /\ LET row == events[pt[p].eventID] IN
       IF err # NoErr
       THEN pt' = [pt EXCEPT ![p].pc = "done", ![p].outcome = err]
       ELSE IF ~row.present
       THEN pt' = [pt EXCEPT ![p].pc = "done", ![p].outcome = "Event not found"]
       ELSE IF row.available_tickets <= 0
       THEN pt' = [pt EXCEPT ![p].pc = "update",
                             ![p].outcome = "No tickets available"]
       ELSE pt' = [pt EXCEPT ![p].pc = "update"]
    /\ UNCHANGED <<events, nextEventId, cb, tickets, req, authVars, clientVars>>

\* The ending differs between the two copies of clientModel: one resolves with a
\* message, the other calls clientModel.getEventByID, which is not defined.
ClientVariants == {"message", "getEventByID"}

\* The UPDATE without its WHERE id = ?: every row is decremented.
PtUpdateEveryRow(p, err, clientVariant) ==
    /\ pt[p].pc = "update"
    /\ err = "SQLITE_BUSY" => ~NoTransactionLock
    /\ LET row == events[pt[p].eventID] IN
       IF err # NoErr
       THEN /\ pt' = [pt EXCEPT ![p].pc = "done",
                                ![p].outcome = Settle(p, err)]
            /\ UNCHANGED events
       ELSE /\ NoTransactionLock
            /\ IF ~row.present
               THEN /\ pt' = [pt EXCEPT ![p].pc = "done",
                                        ![p].outcome = Settle(p, "Event not found")]
                    /\ UNCHANGED events
               ELSE /\ events' = [e \in EventRows |->
                                    IF events[e].present
                                    THEN [events[e] EXCEPT !.available_tickets = @ - 1]
                                    ELSE events[e]]
                    /\ pt' = [pt EXCEPT ![p].pc = "done",
                                        ![p].outcome =
                                            IF clientVariant = "message"
                                            THEN Settle(p, "ok")
                                            ELSE Settle(p, "TypeError")]
    /\ UNCHANGED <<nextEventId, cb, tickets, req, authVars, clientVars>>

PtUpdate(p, err, clientVariant) ==
    /\ pt[p].pc = "update"
    /\ err = "SQLITE_BUSY" => ~NoTransactionLock
    /\ LET row == events[pt[p].eventID] IN
       IF err # NoErr
       THEN /\ pt' = [pt EXCEPT ![p].pc = "done",
                                ![p].outcome = Settle(p, err)]
            /\ UNCHANGED events
       ELSE /\ NoTransactionLock
            /\ IF ~row.present
               THEN /\ pt' = [pt EXCEPT ![p].pc = "done",
                                        ![p].outcome = Settle(p, "Event not found")]
                    /\ UNCHANGED events
               ELSE /\ events' = [events EXCEPT ![pt[p].eventID].available_tickets
                                                  = row.available_tickets - 1]
                    /\ pt' = [pt EXCEPT ![p].pc = "done",
                                        ![p].outcome =
                                            IF clientVariant = "message"
                                            THEN Settle(p, "ok")
                                            ELSE Settle(p, "TypeError")]
    /\ UNCHANGED <<nextEventId, cb, tickets, req, authVars, clientVars>>

\* clientController.purchaseTicket: the status the error is reported with.
PtStatus(outcome) ==
    IF outcome = "ok" THEN 200
    ELSE IF outcome = "Event not found" THEN 404
    ELSE IF outcome = "No tickets available" THEN 400
    ELSE 500

\* The body of the response to request r.
PtResponse(r) ==
    IF r.outcome = "ok"
    THEN [success |-> TRUE, message |-> "Ticket purchased successfully"]
    ELSE IF r.outcome = "Event not found"
    THEN [success |-> FALSE, error |-> "Event not found"]
    ELSE IF r.outcome = "No tickets available"
    THEN [success |-> FALSE, error |-> "No tickets availabe for this event"]
    ELSE [success |-> FALSE, error |-> "Could not process ticket purchase"]

\* ------------------------------------------------------------ admin model
\* The list with available_tickets let in.
AllowedFieldsWithAvailable == {"total_tickets", "available_tickets"}

\* allowedFields, of which the model keeps the columns of its rows.
AllowedFields == {"total_tickets"}

UpdateFields == {"total_tickets", "available_tickets"}

Updates == UNION {[S -> 0..MaxTickets] : S \in SUBSET UpdateFields}

\* The INSERT with available_tickets left at 0.
CreateEventNoneAvailable(total_tickets) ==
    /\ total_tickets > 0
    /\ nextEventId <= MaxEvents
    /\ NoTransactionLock
    /\ events' = [events EXCEPT ![nextEventId] = EventRow(total_tickets, 0)]
    /\ nextEventId' = nextEventId + 1
    /\ UNCHANGED <<cb, pt, tickets, req, authVars, clientVars>>

CreateEvent(total_tickets) ==
    /\ total_tickets > 0
    /\ nextEventId <= MaxEvents
    /\ NoTransactionLock
    /\ events' = [events EXCEPT ![nextEventId] = EventRow(total_tickets, total_tickets)]
    /\ nextEventId' = nextEventId + 1
    /\ UNCHANGED <<cb, pt, tickets, req, authVars, clientVars>>

UpdateEvent(id, updates) ==
    /\ "total_tickets" \in DOMAIN updates => updates["total_tickets"] > 0
    /\ LET fieldsToUpdate == DOMAIN updates \cap AllowedFields IN
       /\ fieldsToUpdate # {}
       /\ events[id].present
       /\ NoTransactionLock
       /\ events' = [events EXCEPT ![id] =
                        [field \in DOMAIN events[id] |->
                            IF field \in fieldsToUpdate THEN updates[field]
                            ELSE events[id][field]]]
    /\ UNCHANGED <<nextEventId, cb, pt, tickets, req, authVars, clientVars>>

DeleteEvent(id) ==
    /\ events[id].present
    /\ NoTransactionLock
    /\ events' = [events EXCEPT ![id] = NoRow]
    /\ UNCHANGED <<nextEventId, cb, pt, tickets, req, authVars, clientVars>>


\* ------------------------------------------------------------ token values
\* A header is a string: a sequence of spaces, words and JSON web tokens.
Space == [kind |-> "space", text |-> " ", type |-> "", userId |-> 0, exp |-> 0,
          secret |-> ""]

Word(text) == [kind |-> "word", text |-> text, type |-> "", userId |-> 0,
               exp |-> 0, secret |-> ""]

\* jwt.sign({userId, type}, secret, {expiresIn}): exp is the first clock value
\* at which the token has expired.
Jwt(type, userId, exp, secret) ==
    [kind |-> "jwt", text |-> "", type |-> type, userId |-> userId, exp |-> exp,
     secret |-> secret]

\* JWT_ACCESS_EXPIRY = '15m': an access token has expired one clock value on.
GenerateAccessToken(userId) == Jwt("access", userId, now + 1, "access")

\* ------------------------------------------------------------- token store
\* JWT_REFRESH_EXPIRY = '7d' and expiresAt = now + 7 days: one clock unit.
RefreshExpiry == 1

\* A request body without refreshToken, and a string that is no signed token.
NoToken == 0

BadToken == -1

Unsigned == [state |-> "unsigned", user_id |-> 0, expires_at |-> 0, revoked |-> 0]

\* Tokens that have been handed to a client: stored once, perhaps deleted since.
Handed == {t \in TokenIds : refresh_tokens[t].state \in {"stored", "deleted"}}

\* generateTokenPair and storeRefreshToken: a fresh token, and its row.
StoreRefreshToken(userId) ==
    [refresh_tokens EXCEPT ![nextToken] =
        [state |-> "stored", user_id |-> userId,
         expires_at |-> now + RefreshExpiry, revoked |-> 0]]

\* The lookup without its revoked = 0 condition.
FindRefreshTokenIgnoringRevoked(token) ==
    /\ token \in TokenIds
    /\ refresh_tokens[token].state = "stored"
    /\ refresh_tokens[token].expires_at > now

\* SELECT ... WHERE token = ? AND revoked = 0 AND expires_at > now
FindRefreshToken(token) ==
    /\ token \in TokenIds
    /\ refresh_tokens[token].state = "stored"
    /\ refresh_tokens[token].revoked = 0
    /\ refresh_tokens[token].expires_at > now

\* The revocation left out: no row changes.
RevokeRefreshTokenSkipped(token) == refresh_tokens

\* The revocation reaching every row of the token's user.
RevokeRefreshTokenOfUser(token) ==
    IF token \in TokenIds /\ refresh_tokens[token].state = "stored"
    THEN [t \in TokenIds |->
            IF /\ refresh_tokens[t].state = "stored"
               /\ refresh_tokens[t].user_id = refresh_tokens[token].user_id
            THEN [refresh_tokens[t] EXCEPT !.revoked = 1]
            ELSE refresh_tokens[t]]
    ELSE refresh_tokens

\* The revocation as a toggle of the flag.
RevokeRefreshTokenToggle(token) ==
    IF token \in TokenIds /\ refresh_tokens[token].state = "stored"
    THEN [refresh_tokens EXCEPT ![token].revoked = 1 - refresh_tokens[token].revoked]
    ELSE refresh_tokens

\* UPDATE refresh_tokens SET revoked = 1 WHERE token = ?
RevokeRefreshToken(token) ==
    IF token \in TokenIds /\ refresh_tokens[token].state = "stored"
    THEN [refresh_tokens EXCEPT ![token].revoked = 1]
    ELSE refresh_tokens

\* The UPDATE flipping the flag of every row of the user.
RevokeAllUserTokensFlip(userId) ==
    [t \in TokenIds |->
        IF /\ refresh_tokens[t].state = "stored"
           /\ refresh_tokens[t].user_id = userId
        THEN [refresh_tokens[t] EXCEPT !.revoked = 1 - refresh_tokens[t].revoked]
        ELSE refresh_tokens[t]]

\* The UPDATE reaching one row of the user only.
RevokeAllUserTokensFirstOnly(userId) ==
    [t \in TokenIds |->
        IF /\ refresh_tokens[t].state = "stored"
           /\ refresh_tokens[t].user_id = userId
           /\ refresh_tokens[t].revoked = 0
           /\ \A o \in 1..(t - 1) :
                 ~ /\ refresh_tokens[o].state = "stored"
                   /\ refresh_tokens[o].user_id = userId
                   /\ refresh_tokens[o].revoked = 0
        THEN [refresh_tokens[t] EXCEPT !.revoked = 1]
        ELSE refresh_tokens[t]]

\* UPDATE refresh_tokens SET revoked = 1 WHERE user_id = ? AND revoked = 0
RevokeAllUserTokens(userId) ==
    [t \in TokenIds |->
        IF /\ refresh_tokens[t].state = "stored"
           /\ refresh_tokens[t].user_id = userId
           /\ refresh_tokens[t].revoked = 0
        THEN [refresh_tokens[t] EXCEPT !.revoked = 1]
        ELSE refresh_tokens[t]]

\* The count of the rows the user owns, flipped or not.
RevokeAllChangesOwned(userId) ==
    Cardinality({t \in TokenIds : /\ refresh_tokens[t].state = "stored"
                                  /\ refresh_tokens[t].user_id = userId})

\* this.changes of that UPDATE
RevokeAllChanges(userId) ==
    Cardinality({t \in TokenIds : RevokeAllUserTokens(userId)[t] # refresh_tokens[t]})

\* The DELETE without its WHERE clause.
CleanupExpiredTokensAll ==
    [t \in TokenIds |->
        IF refresh_tokens[t].state = "stored"
        THEN [refresh_tokens[t] EXCEPT !.state = "deleted"]
        ELSE refresh_tokens[t]]

\* DELETE FROM refresh_tokens WHERE expires_at < now OR revoked = 1
CleanupExpiredTokens ==
    [t \in TokenIds |->
        IF /\ refresh_tokens[t].state = "stored"
           /\ (refresh_tokens[t].expires_at < now \/ refresh_tokens[t].revoked = 1)
        THEN [refresh_tokens[t] EXCEPT !.state = "deleted"]
        ELSE refresh_tokens[t]]

\* The token strings of the model are numbers: t in TokenIds is the refresh
\* token with jti t, AccessTokenOf(t) the access token generateTokenPair
\* signed together with it, anything else no JSON web token at all.
AccessTokenOf(t) == 0 - t - 1

\* jwt.decode: the payload and the signing secret of a token string.
Decoded(token) ==
    IF token \in TokenIds /\ refresh_tokens[token].state # "unsigned"
    THEN Jwt("refresh", refresh_tokens[token].user_id,
             refresh_tokens[token].expires_at, "refresh")
    ELSE IF /\ (0 - token - 1) \in TokenIds
            /\ refresh_tokens[0 - token - 1].state # "unsigned"
    THEN Jwt("access", refresh_tokens[0 - token - 1].user_id,
             refresh_tokens[0 - token - 1].expires_at - RefreshExpiry + 1, "access")
    ELSE Word("invalid-token-12345")

\* The verification as a mere decoding: no signature check, no type check.
VerifyRefreshTokenUnverified(token) ==
    IF Decoded(token).kind # "jwt"
    THEN "Invalid refresh token"
    ELSE IF now >= Decoded(token).exp
    THEN "Refresh token expired"
    ELSE "ok"

\* verifyRefreshToken: jwt.verify with the refresh secret (signature, then
\* exp), then the type claim.
VerifyRefreshToken(token) ==
    IF Decoded(token).kind # "jwt" \/ Decoded(token).secret # "refresh"
    THEN "Invalid refresh token"
    ELSE IF now >= Decoded(token).exp
    THEN "Refresh token expired"
    ELSE IF Decoded(token).type # "refresh"
    THEN "Invalid token type"
    ELSE "ok"

\* ---------------------------------------------------------------- accounts
\* Strings are sequences of characters.
LowerCase == <<"a", "b", "c", "d", "e">>

UpperCase == <<"A", "B", "C", "D", "E">>

Digits == {"0", "1", "2", "3", "4", "5", "6", "7", "8", "9"}

Letters(alphabet) == {alphabet[i] : i \in DOMAIN alphabet}

\* String.prototype.toLowerCase left out: the string as it is.
ToLowerCaseLeftOut(s) == s

\* String.prototype.toLowerCase
ToLowerCase(s) ==
    [i \in DOMAIN s |->
        IF s[i] \in Letters(UpperCase)
        THEN LowerCase[CHOOSE k \in DOMAIN UpperCase : UpperCase[k] = s[i]]
        ELSE s[i]]

\* String.prototype.trim
RECURSIVE TrimEnd(_)
TrimEnd(s) ==
    IF s # <<>> /\ s[Len(s)] = " " THEN TrimEnd(SubSeq(s, 1, Len(s) - 1)) ELSE s

Trim(s) == TrimEnd(SkipWhiteSpace(s))

\* /^[^\s@]+@[^\s@]+\.[^\s@]+$/.test(email)
EmailRegexTest(email) ==
    \E at \in DOMAIN email :
        /\ email[at] = "@"
        /\ at > 1
        /\ \A i \in DOMAIN email : i # at => email[i] \notin {"@", " "}
        /\ \E dot \in (at + 2)..(Len(email) - 1) : email[dot] = "."

\* password.length < 8, or no upper-case letter, lower-case letter or digit
WeakPassword(password) ==
    \/ Len(password) < 8
    \/ ~\E i \in DOMAIN password : password[i] \in Letters(UpperCase)
    \/ ~\E i \in DOMAIN password : password[i] \in Letters(LowerCase)
    \/ ~\E i \in DOMAIN password : password[i] \in Digits

\* bcrypt.hash(password, saltRounds) and bcrypt.compare(password, hash)
BcryptHash(password) == <<"$2b$10$">> \o password

BcryptCompare(password, hash) == hash = BcryptHash(password)

\* The email address of the u-th person, and the forms it is typed in.
EmailOf(u) == <<LowerCase[u], "@", "c", ".", "e">>

TypedEmails(u) ==
    {EmailOf(u),
     <<UpperCase[u], "@", "C", ".", "E">>,
     <<UpperCase[u], "@", "c", ".", "e">>,
     <<" ">> \o EmailOf(u),
     EmailOf(u) \o <<" ">>,
     <<LowerCase[u], "c", ".", "e">>,
     <<>>}

Password == <<"A", "b", "c", "d", "e", "1", "2", "3">>

TypedPasswords == {Password, <<"E", "d", "c", "b", "a", "3", "2", "1">>,
                   <<"a", "b", "c">>, <<>>}

\* last_login DATETIME: NULL until the first login.
Null == -1

NoAccount == [email |-> <<>>, password_hash |-> <<>>, last_login |-> Null]

Account(email, password_hash) ==
    [email |-> email, password_hash |-> password_hash, last_login |-> Null]

\* UPDATE users SET last_login = CURRENT_TIMESTAMP WHERE id = ?
UpdateLastLogin(userId) == [accounts EXCEPT ![userId].last_login = now]

\* SELECT id FROM users WHERE email = ?
UsersWithEmail(email) ==
    {u \in Users : users[u] # "absent" /\ accounts[u].email = email}

\* SELECT ... FROM users WHERE email = ? AND is_active = 1
FindUserByEmail(email) ==
    {u \in Users : users[u] = "active" /\ accounts[u].email = email}

FindUserByIdAnyStatus(userId) == userId \in Users /\ users[userId] # "absent"

\* SELECT ... FROM users WHERE id = ? AND is_active = 1
FindUserById(userId) == userId \in Users /\ users[userId] = "active"

\* --------------------------------------------------------- auth controller
Refreshed == "Tokens refreshed successfully"

Revoked == "Refresh token has been revoked or does not exist."

RfIdle == [pc |-> "idle", refreshToken |-> NoToken, userId |-> 0,
           newToken |-> NoToken, message |-> "none"]

RfStatus(message) ==
    IF message = Refreshed THEN 200
    ELSE IF message = "Refresh token is required." THEN 400
    ELSE 401

\* The body of the response beside its status: success, error, message.
RfResponse(message) ==
    [status |-> RfStatus(message),
     success |-> (message = Refreshed),
     error |-> IF message = Refreshed THEN "none"
               ELSE IF message = "Refresh token is required."
               THEN "Missing refresh token"
               ELSE IF message = "The user associated with this token no longer exists."
               THEN "User not found"
               ELSE "Invalid refresh token",
     message |-> message]

Register(u) ==
    /\ users[u] = "absent"
    /\ nextToken <= MaxTokens
    /\ users' = [users EXCEPT ![u] = "active"]
    /\ accounts' = [accounts EXCEPT ![u] = Account(EmailOf(u), BcryptHash(Password))]
    /\ refresh_tokens' = StoreRefreshToken(u)
    /\ nextToken' = nextToken + 1
    /\ UNCHANGED <<now, rf, lo, la, au, rg, lg, ticketVars, clientVars>>

Login(u) ==
    /\ users[u] = "active"
    /\ nextToken <= MaxTokens
    /\ accounts' = UpdateLastLogin(u)
    /\ refresh_tokens' = StoreRefreshToken(u)
    /\ nextToken' = nextToken + 1
    /\ UNCHANGED <<users, now, rf, lo, la, au, rg, lg, ticketVars, clientVars>>

\* email.toLowerCase().trim()
NormalizeEmail(email) == Trim(ToLowerCase(email))

RgIdle == [pc |-> "idle", email |-> <<>>, password |-> <<>>, userId |-> 0,
           status |-> 0, error |-> "none", newToken |-> NoToken]

\* register: the validation of req.body, up to bcrypt.hash.
RgRequest(r, email, password) ==
    /\ rg[r].pc = "idle"
    /\ r > 1 => rg[r - 1].pc # "idle"
    /\ LET rejected(error) ==
              [rg EXCEPT ![r].pc = "done", ![r].email = email,
                         ![r].password = password, ![r].status = 400,
                         ![r].error = error]
       IN  IF email = <<>> \/ password = <<>>
           THEN rg' = rejected("Missing required fields")
           ELSE IF ~EmailRegexTest(email)
           THEN rg' = rejected("Invalid email format")
           ELSE IF WeakPassword(password)
           THEN rg' = rejected("Weak password")
           ELSE rg' = [rg EXCEPT ![r].pc = "select", ![r].email = email,
                                 ![r].password = password]
    /\ UNCHANGED <<users, accounts, refresh_tokens, nextToken, now, rf, lo, la, au,
                   lg, ticketVars, clientVars>>

\* createUser: the SELECT for an existing user with the email.
RgSelect(r) ==
    /\ rg[r].pc = "select"
    /\ IF UsersWithEmail(NormalizeEmail(rg[r].email)) # {}
       THEN rg' = [rg EXCEPT ![r].pc = "done", ![r].status = 409,
                             ![r].error = "Email already exists"]
       ELSE rg' = [rg EXCEPT ![r].pc = "insert"]
    /\ UNCHANGED <<users, accounts, refresh_tokens, nextToken, now, rf, lo, la, au,
                   lg, ticketVars, clientVars>>

\* createUser: the INSERT (email is UNIQUE) and the SELECT of the new row.
RgInsert(r) ==
    /\ rg[r].pc = "insert"
    /\ IF UsersWithEmail(NormalizeEmail(rg[r].email)) # {}
       THEN /\ rg' = [rg EXCEPT ![r].pc = "done", ![r].status = 500,
                                ![r].error = "Registration failed"]
            /\ UNCHANGED <<users, accounts>>
       ELSE /\ \E u \in Users : users[u] = "absent"
            /\ LET id == CHOOSE u \in Users :
                            /\ users[u] = "absent"
                            /\ \A v \in 1..(u - 1) : users[v] # "absent"
               IN  /\ users' = [users EXCEPT ![id] = "active"]
                   /\ accounts' = [accounts EXCEPT ![id] =
                          Account(NormalizeEmail(rg[r].email),
                                  BcryptHash(rg[r].password))]
                   /\ rg' = [rg EXCEPT ![r].pc = "store", ![r].userId = id]
    /\ UNCHANGED <<refresh_tokens, nextToken, now, rf, lo, la, au, lg, ticketVars, clientVars>>

\* register: generateTokenPair, storeRefreshToken, the 201 response.
RgStore(r) ==
    /\ rg[r].pc = "store"
    /\ nextToken <= MaxTokens
    /\ refresh_tokens' = StoreRefreshToken(rg[r].userId)
    /\ nextToken' = nextToken + 1
    /\ rg' = [rg EXCEPT ![r].pc = "done", ![r].status = 201,
                        ![r].newToken = nextToken]
    /\ UNCHANGED <<users, accounts, now, rf, lo, la, au, lg, ticketVars, clientVars>>

LgIdle == [pc |-> "idle", email |-> <<>>, password |-> <<>>, userId |-> 0,
           status |-> 0, error |-> "none", newToken |-> NoToken]

\* The login with updateLastLogin called before the password is compared.
LgRequestStamping(l, email, password) ==
    /\ lg[l].pc = "idle"
    /\ l > 1 => lg[l - 1].pc # "idle"
    /\ LET rejected(status, error) ==
              [lg EXCEPT ![l].pc = "done", ![l].email = email,
                         ![l].password = password, ![l].status = status,
                         ![l].error = error]
           found == FindUserByEmail(NormalizeEmail(email))
       IN  IF email = <<>> \/ password = <<>>
           THEN lg' = rejected(400, "Missing credentials") /\ UNCHANGED accounts
           ELSE IF found = {}
           THEN lg' = rejected(401, "Invalid credentials") /\ UNCHANGED accounts
           ELSE LET user == CHOOSE u \in found : TRUE IN
                /\ accounts' = UpdateLastLogin(user)
                /\ IF ~BcryptCompare(password, accounts[user].password_hash)
                   THEN lg' = rejected(401, "Invalid credentials")
                   ELSE lg' = [lg EXCEPT ![l].pc = "touch", ![l].email = email,
                                         ![l].password = password,
                                         ![l].userId = user]
    /\ UNCHANGED <<users, refresh_tokens, nextToken, now, rf, lo, la, au,
                   rg, ticketVars, clientVars>>

\* login: the body check, findUserByEmail and bcrypt.compare.
LgRequest(l, email, password) ==
    /\ lg[l].pc = "idle"
    /\ l > 1 => lg[l - 1].pc # "idle"
    /\ LET rejected(status, error) ==
              [lg EXCEPT ![l].pc = "done", ![l].email = email,
                         ![l].password = password, ![l].status = status,
                         ![l].error = error]
           found == FindUserByEmail(NormalizeEmail(email))
       IN  IF email = <<>> \/ password = <<>>
           THEN lg' = rejected(400, "Missing credentials")
           ELSE IF found = {}
           THEN lg' = rejected(401, "Invalid credentials")
           ELSE LET user == CHOOSE u \in found : TRUE IN
                IF ~BcryptCompare(password, accounts[user].password_hash)
                THEN lg' = rejected(401, "Invalid credentials")
                ELSE lg' = [lg EXCEPT ![l].pc = "touch", ![l].email = email,
                                      ![l].password = password,
                                      ![l].userId = user]
    /\ UNCHANGED <<users, accounts, refresh_tokens, nextToken, now, rf, lo, la, au,
                   rg, ticketVars, clientVars>>

\* login: await authModel.updateLastLogin(user.id)
LgUpdateLastLogin(l) ==
    /\ lg[l].pc = "touch"
    /\ accounts' = UpdateLastLogin(lg[l].userId)
    /\ lg' = [lg EXCEPT ![l].pc = "store"]
    /\ UNCHANGED <<users, refresh_tokens, nextToken, now, rf, lo, la, au, rg,
                   ticketVars, clientVars>>

\* login: generateTokenPair, storeRefreshToken, the 200.
LgStore(l) ==
    /\ lg[l].pc = "store"
    /\ nextToken <= MaxTokens
    /\ refresh_tokens' = StoreRefreshToken(lg[l].userId)
    /\ nextToken' = nextToken + 1
    /\ lg' = [lg EXCEPT ![l].pc = "done", ![l].status = 200,
                        ![l].newToken = nextToken]
    /\ UNCHANGED <<users, accounts, now, rf, lo, la, au, rg, ticketVars, clientVars>>

\* The body check and verifyRefreshToken, up to the first await.
RfRequest(q, refreshToken) ==
    /\ rf[q].pc = "idle"
    /\ q > 1 => rf[q - 1].pc # "idle"
    /\ IF refreshToken = NoToken
       THEN rf' = [rf EXCEPT ![q].pc = "done",
                             ![q].message = "Refresh token is required."]
       ELSE IF VerifyRefreshToken(refreshToken) # "ok"
       THEN rf' = [rf EXCEPT ![q].pc = "done", ![q].refreshToken = refreshToken,
                             ![q].message = VerifyRefreshToken(refreshToken)]
       ELSE rf' = [rf EXCEPT ![q].pc = "find", ![q].refreshToken = refreshToken,
                             ![q].userId = Decoded(refreshToken).userId]
    /\ UNCHANGED <<users, refresh_tokens, nextToken, now, lo, la, au, accountVars, ticketVars, clientVars>>

RfFind(q) ==
    /\ rf[q].pc = "find"
    /\ IF FindRefreshToken(rf[q].refreshToken)
       THEN rf' = [rf EXCEPT ![q].pc = "user"]
       ELSE rf' = [rf EXCEPT ![q].pc = "done", ![q].userId = 0,
                             ![q].message = Revoked]
    /\ UNCHANGED <<users, refresh_tokens, nextToken, now, lo, la, au, accountVars, ticketVars, clientVars>>

RfUserRevoking(q) ==
    /\ rf[q].pc = "user"
    /\ IF FindUserById(rf[q].userId)
       THEN rf' = [rf EXCEPT ![q].pc = "store"] /\ UNCHANGED refresh_tokens
       ELSE /\ rf' = [rf EXCEPT ![q].pc = "done", ![q].userId = 0,
                               ![q].message =
                                 "The user associated with this token no longer exists."]
            /\ refresh_tokens' = RevokeRefreshToken(rf[q].refreshToken)
    /\ UNCHANGED <<users, nextToken, now, lo, la, au, accountVars, ticketVars, clientVars>>

RfUser(q) ==
    /\ rf[q].pc = "user"
    /\ IF FindUserById(rf[q].userId)
       THEN rf' = [rf EXCEPT ![q].pc = "store"]
       ELSE rf' = [rf EXCEPT ![q].pc = "done", ![q].userId = 0,
                             ![q].message =
                               "The user associated with this token no longer exists."]
    /\ UNCHANGED <<users, refresh_tokens, nextToken, now, lo, la, au, accountVars, ticketVars, clientVars>>

\* generateTokenPair(user), then the INSERT of storeRefreshToken.
RfStore(q) ==
    /\ rf[q].pc = "store"
    /\ nextToken <= MaxTokens
    /\ refresh_tokens' = StoreRefreshToken(rf[q].userId)
    /\ nextToken' = nextToken + 1
    /\ rf' = [rf EXCEPT ![q].pc = "revoke", ![q].newToken = nextToken]
    /\ UNCHANGED <<users, now, lo, la, au, accountVars, ticketVars, clientVars>>

\* revokeRefreshToken(refreshToken), then the 200 response with the new pair.
RfRevoke(q) ==
    /\ rf[q].pc = "revoke"
    /\ refresh_tokens' = RevokeRefreshToken(rf[q].refreshToken)
    /\ rf' = [rf EXCEPT ![q].pc = "done", ![q].userId = 0,
                        ![q].message = Refreshed]
    /\ UNCHANGED <<users, nextToken, now, lo, la, au, accountVars, ticketVars, clientVars>>

LoIdle == [pc |-> "idle", refreshToken |-> NoToken, status |-> 0]

Logout(l, refreshToken) ==
    /\ lo[l].pc = "idle"
    /\ l > 1 => lo[l - 1].pc # "idle"
    /\ IF refreshToken = NoToken
       THEN /\ lo' = [lo EXCEPT ![l].pc = "done", ![l].status = 400]
            /\ UNCHANGED refresh_tokens
       ELSE /\ refresh_tokens' = RevokeRefreshToken(refreshToken)
            /\ lo' = [lo EXCEPT ![l].pc = "done", ![l].refreshToken = refreshToken,
                                ![l].status = 200]
    /\ UNCHANGED <<users, nextToken, now, rf, la, au, accountVars, ticketVars, clientVars>>

LaIdle == [pc |-> "idle", userId |-> 0, revokedCount |-> 0, activeBefore |-> {},
           issued |-> 0]

\* authenticate lets the request of an active user through; activeBefore
\* records the tokens of the user that were Active when the call was made, and
\* issued the number of tokens signed until then.
LogoutAll(a, userId) ==
    /\ la[a].pc = "idle"
    /\ a > 1 => la[a - 1].pc # "idle"
    /\ users[userId] = "active"
    /\ refresh_tokens' = RevokeAllUserTokens(userId)
    /\ la' = [la EXCEPT ![a].pc = "done", ![a].userId = userId,
                        ![a].revokedCount = RevokeAllChanges(userId),
                        ![a].activeBefore =
                            {t \in TokenIds : /\ refresh_tokens[t].state = "stored"
                                              /\ refresh_tokens[t].user_id = userId
                                              /\ refresh_tokens[t].revoked = 0
                                              /\ refresh_tokens[t].expires_at > now},
                        ![a].issued = nextToken - 1]
    /\ UNCHANGED <<users, nextToken, now, rf, lo, au, accountVars, ticketVars, clientVars>>

Cleanup ==
    /\ refresh_tokens' = CleanupExpiredTokens
    /\ UNCHANGED <<users, nextToken, now, rf, lo, la, au, accountVars, ticketVars, clientVars>>

Tick ==
    /\ now < MaxTime
    /\ now' = now + 1
    /\ UNCHANGED <<users, refresh_tokens, nextToken, rf, lo, la, au, accountVars, ticketVars, clientVars>>

\* ------------------------------------------------------------ access tokens
\* authHeader.split(' '): the runs between the spaces, empty ones included.
RECURSIVE Split(_, _)
Split(header, part) ==
    IF header = <<>> THEN <<part>>
    ELSE IF Head(header) = Space THEN <<part>> \o Split(Tail(header), <<>>)
    ELSE Split(Tail(header), Append(part, Head(header)))

\* extractTokenFromHeader: the token, or <<>> for null (and for an empty token).
ExtractTokenFromHeader(authHeader) ==
    IF authHeader = <<>> THEN <<>>
    ELSE LET parts == Split(authHeader, <<>>) IN
         IF Len(parts) # 2 \/ parts[1] # <<Word("Bearer")>> THEN <<>>
         ELSE parts[2]

\* The verification without its check of the type claim.
VerifyAccessTokenAnyType(token) ==
    IF Len(token) # 1 \/ token[1].kind # "jwt" \/ token[1].secret # "access"
    THEN "Invalid access token"
    ELSE IF now >= token[1].exp THEN "Access token expired"
    ELSE "ok"

\* verifyAccessToken: jwt.verify with the access secret, then the type claim.
VerifyAccessToken(token) ==
    IF Len(token) # 1 \/ token[1].kind # "jwt" \/ token[1].secret # "access"
    THEN "Invalid access token"
    ELSE IF now >= token[1].exp THEN "Access token expired"
    ELSE IF token[1].type # "access" THEN "Invalid token type"
    ELSE "ok"

Jwts ==
    {Jwt(type, u, exp, secret) :
        type \in {"access", "refresh"}, u \in Users, exp \in 1..(MaxTime + 1),
        secret \in {"access", "refresh"}}

Bearer(token) == <<Word("Bearer"), Space, token>>

\* The Authorization headers sent: none, Bearer with every token, and
\* malformed ones.
Headers ==
    {<<>>} \cup {Bearer(t) : t \in Jwts}
           \cup {Bearer(Word("invalid-token")),
                 <<Word("Bearer")>>,
                 <<Word("Bearer"), Space>>,
                 <<Word("Bearer"), Space, Space, Jwt("access", 1, MaxTime + 1, "access")>>,
                 <<Word("bearer"), Space, Jwt("access", 1, MaxTime + 1, "access")>>,
                 <<Word("Basic"), Space, Jwt("access", 1, MaxTime + 1, "access")>>,
                 <<Jwt("access", 1, MaxTime + 1, "access")>>}

AuIdle == [pc |-> "idle", header |-> <<>>, userId |-> 0, status |-> 0,
           error |-> "none", message |-> "none", user |-> 0, next |-> FALSE]

\* authenticate, up to the await: the header, the token, its verification.
Authenticate(a, authHeader) ==
    /\ au[a].pc = "idle"
    /\ a > 1 => au[a - 1].pc # "idle"
    /\ LET token == ExtractTokenFromHeader(authHeader) IN
       IF token = <<>>
       THEN au' = [au EXCEPT ![a].pc = "done", ![a].header = authHeader,
                             ![a].status = 401,
                             ![a].error = "Authentication required"]
       ELSE IF VerifyAccessToken(token) # "ok"
       THEN au' = [au EXCEPT ![a].pc = "done", ![a].header = authHeader,
                             ![a].status = 401,
                             ![a].error = "Invalid token",
                             ![a].message = VerifyAccessToken(token)]
       ELSE au' = [au EXCEPT ![a].pc = "findUser", ![a].header = authHeader,
                             ![a].userId = token[1].userId]
    /\ UNCHANGED <<users, refresh_tokens, nextToken, now, rf, lo, la, accountVars, ticketVars, clientVars>>

\* The middleware asking for a live refresh token of the user as well.
AuFindUserWithSession(a) ==
    /\ au[a].pc = "findUser"
    /\ IF \/ ~FindUserById(au[a].userId)
          \/ ~\E t \in TokenIds : /\ FindRefreshToken(t)
                                   /\ refresh_tokens[t].user_id = au[a].userId
       THEN au' = [au EXCEPT ![a].pc = "done", ![a].status = 401,
                             ![a].error = "User not found"]
       ELSE au' = [au EXCEPT ![a].pc = "done", ![a].user = au[a].userId,
                             ![a].next = TRUE]
    /\ UNCHANGED <<users, refresh_tokens, nextToken, now, rf, lo, la, accountVars, ticketVars, clientVars>>

\* authenticate, after findUserById: 401, or req.user and next().
AuFindUser(a) ==
    /\ au[a].pc = "findUser"
    /\ IF ~FindUserById(au[a].userId)
       THEN au' = [au EXCEPT ![a].pc = "done", ![a].status = 401,
                             ![a].error = "User not found"]
       ELSE au' = [au EXCEPT ![a].pc = "done", ![a].user = au[a].userId,
                             ![a].next = TRUE]
    /\ UNCHANGED <<users, refresh_tokens, nextToken, now, rf, lo, la, accountVars, ticketVars, clientVars>>

\* ------------------------------------------------------------------ ChatBot
\* No booking: the null of pendingBooking, and the bookingData a message that
\* is no confirmation prompt lacks.
NoBooking == [event_id |-> Undefined, tickets |-> Undefined]

\* A message of the conversation.  needsConfirmation and bookingData are set
\* on the confirmation prompts only.
Message(role) == [role |-> role, needsConfirmation |-> FALSE, bookingData |-> NoBooking]

\* The assistant's message asking to confirm a booking.
Prompt(data) ==
    [role |-> "assistant", needsConfirmation |-> TRUE,
     bookingData |-> [event_id |-> data.event_id, tickets |-> data.tickets]]

\* What is typed into the input field: blanks, or a message.
ChatInputs == {<<" ">>, <<" ", "b", " ">>}

Intents == {"greeting", "show_events", "book_tickets", "confirm", "other"}

\* A body with success: false.
ParseError ==
    [success |-> FALSE, intent |-> "other", event_id |-> Undefined, tickets |-> Undefined]

\* The bodies the parse endpoint answers with: an error, or an intent with the
\* event and the ticket count the language model found (null where it found
\* none).
ParseResults ==
    {ParseError}
    \cup {[success |-> TRUE, intent |-> i, event_id |-> e, tickets |-> n] :
             i \in Intents, e \in {Undefined} \cup {Number(x) : x \in EventIds},
             n \in {Undefined} \cup {Number(x) : x \in 0..MaxTickets}}

\* No handler running.
ChatIdle == [pc |-> "idle", data |-> ParseError, request |-> 0]

\* The component as useState constructs it.
InitChat ==
    /\ messages = <<Message("assistant")>>
    /\ isLoading = FALSE
    /\ pendingBooking = NoBooking
    /\ chat = ChatIdle
    /\ sent = <<>>

\* handleSendMessage, up to the fetch of the parse endpoint.
HandleSendMessage(inputValue) ==
    /\ ~(Trim(inputValue) = <<>> \/ isLoading)
    /\ Len(messages) < MaxMessages
    /\ messages' = Append(messages, Message("user"))
    /\ isLoading' = TRUE
    /\ chat' = [chat EXCEPT !.pc = "parse"]
    /\ UNCHANGED <<pendingBooking, sent, storageVars, ticketVars, authVars>>

\* const data = await response.json()
ParseResponse(data) ==
    /\ chat.pc = "parse"
    /\ chat' = [chat EXCEPT !.pc = "parsed", !.data = data]
    /\ UNCHANGED <<messages, isLoading, pendingBooking, sent, storageVars, ticketVars,
                   authVars>>

\* handleSendMessage after the response: the error, the intents, and finally.
HandleParsed ==
    /\ chat.pc = "parsed"
    /\ LET data == chat.data IN
       IF data.success /\ data.intent = "book_tickets"
          /\ ~Falsy(data.event_id) /\ ~Falsy(data.tickets)
       THEN /\ pendingBooking' = [event_id |-> data.event_id, tickets |-> data.tickets]
            /\ messages' = Append(messages, Prompt(data))
       ELSE /\ messages' = Append(messages, Message("assistant"))
            /\ UNCHANGED pendingBooking
    /\ isLoading' = FALSE
    /\ chat' = ChatIdle
    /\ UNCHANGED <<sent, storageVars, ticketVars, authVars>>

\* handleSendMessage when the fetch throws: catch, and finally.
ParseFailed ==
    /\ chat.pc = "parse"
    /\ messages' = Append(messages, Message("assistant"))
    /\ isLoading' = FALSE
    /\ chat' = ChatIdle
    /\ UNCHANGED <<pendingBooking, sent, storageVars, ticketVars, authVars>>

\* The Confirm and Cancel buttons of message i are shown and enabled.
Buttons(i) ==
    /\ i \in DOMAIN messages
    /\ messages[i].needsConfirmation
    /\ messages[i].bookingData # NoBooking
    /\ ~isLoading

\* The request body posted with the pending booking instead of the message's.
ConfirmBodyPending(bookingData) ==
    [event_id |-> pendingBooking.event_id, tickets |-> pendingBooking.tickets]

\* The body of the confirm-booking request.
ConfirmBody(bookingData) ==
    [event_id |-> bookingData.event_id, tickets |-> bookingData.tickets]

\* The Confirm button of message i pressed: handleConfirmBooking(msg.bookingData)
\* up to the fetch of the confirm-booking endpoint.
HandleConfirmBooking(i) ==
    /\ Buttons(i)
    /\ Len(sent) < NumBookings
    /\ isLoading' = TRUE
    /\ sent' = Append(sent, [message |-> i, body |-> ConfirmBody(messages[i].bookingData)])
    /\ chat' = [chat EXCEPT !.pc = "confirm", !.request = Len(sent) + 1]
    /\ UNCHANGED <<messages, pendingBooking, storageVars, ticketVars, authVars>>

\* The confirm-booking endpoint receiving the posted requests, in order.
ChatRequest(c) ==
    /\ c <= Len(sent)
    /\ ConfirmBooking(c, sent[c].body)

\* handleConfirmBooking after the response: success or error, and finally.
ConfirmResponse ==
    /\ chat.pc = "confirm"
    /\ cb[chat.request].pc = "done"
    /\ messages' = Append(messages, Message("assistant"))
    /\ IF CbResponse(cb[chat.request]).success
       THEN pendingBooking' = NoBooking
       ELSE UNCHANGED pendingBooking
    /\ isLoading' = FALSE
    /\ chat' = ChatIdle
    /\ UNCHANGED <<sent, storageVars, ticketVars, authVars>>

\* handleConfirmBooking when the fetch throws: catch, and finally.
ConfirmFailed ==
    /\ chat.pc = "confirm"
    /\ messages' = Append(messages, Message("assistant"))
    /\ isLoading' = FALSE
    /\ chat' = ChatIdle
    /\ UNCHANGED <<pendingBooking, sent, storageVars, ticketVars, authVars>>

\* The Cancel button of a prompt pressed: handleCancelBooking.
HandleCancelBooking(i) ==
    /\ Buttons(i)
    /\ Len(messages) < MaxMessages
    /\ pendingBooking' = NoBooking
    /\ messages' = Append(messages, Message("assistant"))
    /\ UNCHANGED <<isLoading, chat, sent, storageVars, ticketVars, authVars>>

\* ------------------------------------------------------------ api.js, AuthContext
\* localStorage without the two items.
NoItems == [accessToken |-> <<>>, refreshToken |-> NoToken]

AfIdle == [pc |-> "idle", caller |-> "none", token |-> <<>>, request |-> 0]

\* A browser nobody has logged in with.
InitStorage ==
    /\ localStorage = NoItems
    /\ af = [k \in Calls |-> AfIdle]
    /\ outbox = <<>>

\* The Authorization header of authenticatedFetch: set if (token).
AuthorizationOf(token) == IF token = <<>> THEN <<>> ELSE Bearer(token[1])

\* The status the authenticate middleware lets a request with this header
\* through with (200), or rejects it with (401).
AuthenticateStatus(authHeader) ==
    LET token == ExtractTokenFromHeader(authHeader) IN
    IF token = <<>> \/ VerifyAccessToken(token) # "ok" THEN 401
    ELSE IF ~FindUserById(token[1].userId) THEN 401
    ELSE 200

\* authenticatedFetch, up to the fetch with the stored access token.
AuthenticatedFetch(k) ==
    /\ af[k].pc = "idle"
    /\ k > 1 => af[k - 1].pc # "idle"
    /\ af' = [af EXCEPT ![k].pc = "fetch", ![k].caller = "fetch",
                        ![k].token = localStorage.accessToken]
    /\ UNCHANGED <<localStorage, outbox, chatVars, ticketVars, authVars>>

\* refreshAccessToken, up to the fetch of the refresh endpoint; without a
\* stored refresh token it returns false at once, and authenticatedFetch
\* removes the items and redirects to /login.
RefreshAccessToken(k, caller) ==
    IF localStorage.refreshToken = NoToken
    THEN /\ af' = [af EXCEPT ![k].pc = IF caller = "fetch" THEN "login" ELSE "done",
                             ![k].caller = caller]
         /\ localStorage' = IF caller = "fetch" THEN NoItems ELSE localStorage
         /\ UNCHANGED outbox
    ELSE /\ Len(outbox) < NumRefreshes
         /\ outbox' = Append(outbox, localStorage.refreshToken)
         /\ af' = [af EXCEPT ![k].pc = "refresh", ![k].caller = caller,
                             ![k].request = Len(outbox) + 1]
         /\ UNCHANGED localStorage

\* authenticatedFetch after the response: 401 calls refreshAccessToken.
AfResponse(k) ==
    /\ af[k].pc = "fetch"
    /\ IF AuthenticateStatus(AuthorizationOf(af[k].token)) = 401
       THEN RefreshAccessToken(k, "fetch")
       ELSE /\ af' = [af EXCEPT ![k].pc = "done"]
            /\ UNCHANGED <<localStorage, outbox>>
    /\ UNCHANGED <<chatVars, ticketVars, authVars>>

\* The interval of AuthProvider: every 14 minutes, if an access token is
\* stored, refreshAccessToken, whose result is not looked at.
RefreshInterval(k) ==
    /\ af[k].pc = "idle"
    /\ k > 1 => af[k - 1].pc # "idle"
    /\ localStorage.accessToken # <<>>
    /\ RefreshAccessToken(k, "interval")
    /\ UNCHANGED <<chatVars, ticketVars, authVars>>

\* The refresh endpoint receiving the posted requests, in order.
BrowserRequest(q) ==
    /\ q <= Len(outbox)
    /\ RfRequest(q, outbox[q])

\* refreshAccessToken after the response: the new pair stored if response.ok;
\* then its caller, authenticatedFetch retrying with the new token or removing
\* both items and redirecting to /login.
AfRefreshed(k) ==
    /\ af[k].pc = "refresh"
    /\ rf[af[k].request].pc = "done"
    /\ LET r == rf[af[k].request]
           refreshed == RfResponse(r.message).status = 200
       IN  /\ localStorage' =
                 IF refreshed
                 THEN [accessToken |-> <<Decoded(AccessTokenOf(r.newToken))>>,
                       refreshToken |-> r.newToken]
                 ELSE IF af[k].caller = "fetch" THEN NoItems
                 ELSE localStorage
           /\ af' = [af EXCEPT ![k].pc = IF refreshed \/ af[k].caller = "interval"
                                         THEN "done" ELSE "login"]
    /\ UNCHANGED <<outbox, chatVars, ticketVars, authVars>>

\* refreshAccessToken when its fetch throws: false, as for a rejected token.
AfRefreshThrew(k) ==
    /\ af[k].pc = "refresh"
    /\ localStorage' = IF af[k].caller = "fetch" THEN NoItems ELSE localStorage
    /\ af' = [af EXCEPT ![k].pc = IF af[k].caller = "interval" THEN "done" ELSE "login"]
    /\ UNCHANGED <<outbox, chatVars, ticketVars, authVars>>

\* ----------------------------------------------------------- specification
InitTickets ==
    /\ events = [e \in EventRows |-> NoRow]
    /\ nextEventId = 1
    /\ tickets = <<>>
    /\ req = [c \in Bookings |-> [event_id |-> Undefined, tickets |-> Undefined]]
    /\ cb = [c \in Bookings |-> CbIdle]
    /\ pt = [p \in Purchases |-> PtIdle]
    /\ InitChat
    /\ InitStorage

InitSessions ==
    /\ refresh_tokens = [t \in TokenIds |-> Unsigned]
    /\ nextToken = 1
    /\ now = 0
    /\ rf = [q \in Refreshes |-> RfIdle]
    /\ lo = [l \in Logouts |-> LoIdle]
    /\ la = [a \in LogoutAlls |-> LaIdle]
    /\ au = [a \in Authenticates |-> AuIdle]
    /\ rg = [r \in Registers |-> RgIdle]
    /\ lg = [l \in Logins |-> LgIdle]

InitAuth ==
    /\ users = [u \in Users |-> "absent"]
    /\ accounts = [u \in Users |-> NoAccount]
    /\ InitSessions

Init == InitTickets /\ InitAuth

\* The statements of llmModel.confirmBooking for request c.
BookingSteps(c) ==
    \/ \E err \in IoFaults : CbBegin(c, err)
    \/ \E err \in IoFaults : CbSelect(c, err)
    \/ \E err \in IoFaults : CbUpdate(c, err)
    \/ \E err \in IoFaults : CbReselect(c, err)
    \/ \E err \in CommitFaults : CbCommit(c, err)
    \/ CbRollback(c)
    \/ CbClose(c)

BookingNext(B) ==
    \E c \in Bookings :
        \/ \E body \in B : ConfirmBooking(c, body)
        \/ BookingSteps(c)

PurchaseOf(E) ==
    \E p \in Purchases :
        \/ \E e \in E : PtRequest(p, e)
        \/ \E err \in IoFaults : PtSelect(p, err)
        \/ \E err \in CommitFaults, v \in ClientVariants : PtUpdate(p, err, v)

PurchaseNext == PurchaseOf(EventIds)

AdminNext ==
    \/ \E t \in 1..MaxTickets : CreateEvent(t)
    \/ \E id \in EventIds, u \in Updates : UpdateEvent(id, u)
    \/ \E id \in EventIds : DeleteEvent(id)

TicketNext == BookingNext(NumericBodies) \/ PurchaseNext \/ AdminNext

\* The awaits of authController.refresh for request q.
RefreshSteps(q) ==
    \/ RfFind(q)
    \/ RfUser(q)
    \/ RfStore(q)
    \/ RfRevoke(q)

RefreshNext(Q) ==
    \E q \in Q :
        \/ \E t \in Handed \cup {NoToken, BadToken} : RfRequest(q, t)
        \/ RefreshSteps(q)

AccountNext ==
    \/ \E u \in Users : Register(u)
    \/ \E u \in Users : Login(u)

LogoutNext(L) == \E l \in L, t \in Handed \cup {NoToken} : Logout(l, t)

LogoutAllNext(A) == \E a \in A, u \in Users : LogoutAll(a, u)

\* Every operation of the auth service, with one refresh, one logout and one
\* logout-all request fewer than the scenarios below run.
AuthNext ==
    \/ RefreshNext(1..(NumRefreshes - 1))
    \/ AccountNext
    \/ LogoutNext(1..(NumLogouts - 1))
    \/ LogoutAllNext(1..(NumLogoutAlls - 1))
    \/ Cleanup
    \/ Tick

RegisterNext(R) ==
    \E r \in R :
        \/ \E u \in Users : \E email \in TypedEmails(u), password \in TypedPasswords :
              RgRequest(r, email, password)
        \/ RgSelect(r)
        \/ RgInsert(r)
        \/ RgStore(r)

LoginNext(L) ==
    \E l \in L :
        \/ \E u \in Users : \E email \in TypedEmails(u), password \in TypedPasswords :
              LgRequest(l, email, password)
        \/ LgUpdateLastLogin(l)
        \/ LgStore(l)

AuthenticateNext ==
    \E a \in Authenticates :
        \/ \E h \in Headers : Authenticate(a, h)
        \/ AuFindUser(a)

\* The chat beside the confirm-booking endpoint it posts to.
ChatNext ==
    \/ \E inputValue \in ChatInputs : HandleSendMessage(inputValue)
    \/ \E data \in ParseResults : ParseResponse(data)
    \/ HandleParsed
    \/ ParseFailed
    \/ \E i \in MessageIds : HandleConfirmBooking(i)
    \/ \E c \in Bookings : ChatRequest(c)
    \/ \E c \in Bookings : BookingSteps(c)
    \/ ConfirmResponse
    \/ ConfirmFailed
    \/ \E i \in MessageIds : HandleCancelBooking(i)

\* The calls of the browser beside the refresh endpoint, the network up.
BrowserNext ==
    \/ \E k \in Calls : AuthenticatedFetch(k)
    \/ \E k \in Calls : AfResponse(k)
    \/ \E k \in Calls : RefreshInterval(k)
    \/ \E q \in Refreshes : BrowserRequest(q)
    \/ \E q \in Refreshes : RefreshSteps(q)
    \/ \E k \in Calls : AfRefreshed(k)

Next ==
    \/ TicketNext
    \/ AuthNext
    \/ AuthenticateNext
    \/ RegisterNext(Registers)
    \/ LoginNext(Logins)
    \/ ChatNext
    \/ BrowserNext
    \/ \E k \in Calls : AfRefreshThrew(k)

Spec == Init /\ [][Next]_vars

SpecTickets == Init /\ [][TicketNext]_vars

SpecAuth == Init /\ [][AuthNext]_vars

\* Rotation: sign-in and refresh requests only, as time passes.
RotationNext ==
    \/ RefreshNext(Refreshes)
    \/ AccountNext
    \/ Cleanup
    \/ Tick

SpecRotation == Init /\ [][RotationNext]_vars

\* Logout: repeated logout requests beside one refresh request.
RepeatedLogoutNext ==
    \/ LogoutNext(Logouts)
    \/ RefreshNext({1})
    \/ AccountNext
    \/ Cleanup
    \/ Tick

SpecLogout == Init /\ [][RepeatedLogoutNext]_vars

\* Logout-all: repeated logout-all requests beside one refresh request.
RepeatedLogoutAllNext ==
    \/ LogoutAllNext(LogoutAlls)
    \/ RefreshNext({1})
    \/ AccountNext
    \/ Cleanup
    \/ Tick

SpecLogoutAll == Init /\ [][RepeatedLogoutAllNext]_vars

\* The middleware over a users table with absent, active and deactivated
\* (is_active = 0) users, as time passes.
InitAuthenticate ==
    /\ InitTickets
    /\ users \in [Users -> {"absent", "active", "inactive"}]
    /\ accounts = [u \in Users |->
                      IF users[u] = "absent" THEN NoAccount
                      ELSE Account(EmailOf(u), BcryptHash(Password))]
    /\ InitSessions

SpecAuthenticate == InitAuthenticate /\ [][AuthenticateNext \/ Tick]_vars

\* Token kinds: each token of an issued pair presented where the other belongs.
RefreshWithAccessToken(Q) ==
    \E q \in Q, t \in Handed : RfRequest(q, AccessTokenOf(t))

AuthenticateIssued(A) ==
    \E a \in A :
        \/ \E t \in Handed : Authenticate(a, Bearer(Decoded(t)))
        \/ \E t \in Handed : Authenticate(a, Bearer(Decoded(AccessTokenOf(t))))
        \/ AuFindUser(a)

TokenKindsNext ==
    \/ AccountNext
    \/ RefreshNext({1})
    \/ RefreshWithAccessToken({1})
    \/ AuthenticateIssued({1})
    \/ Tick

SpecTokenKinds == Init /\ [][TokenKindsNext]_vars

\* Access tokens presented after the refresh token of their pair was revoked
\* by logout, logout-all or rotation.
AuthenticateRevoked(A) ==
    \E a \in A :
        \/ \E t \in Handed :
              /\ refresh_tokens[t].revoked = 1
              /\ Authenticate(a, Bearer(Decoded(AccessTokenOf(t))))
        \/ AuFindUser(a)

AccessNext ==
    \/ AccountNext
    \/ RefreshNext({1})
    \/ LogoutNext({1})
    \/ LogoutAllNext({1})
    \/ AuthenticateRevoked(Authenticates)
    \/ Cleanup
    \/ Tick

SpecAccess == Init /\ [][AccessNext]_vars

\* Accounts: register requests with emails and passwords as they are typed.
SpecRegister == Init /\ [][RegisterNext(Registers)]_vars

\* Users who logged in earlier and hold the token pair of that login; since
\* then a row may have got is_active = 0 or been deleted (no connection sets
\* PRAGMA foreign_keys, so the token rows of a deleted user stay).
InitInactive ==
    /\ InitTickets
    /\ users \in [Users -> {"absent", "active", "inactive"}]
    /\ accounts = [u \in Users |->
                      IF users[u] = "absent" THEN NoAccount
                      ELSE Account(EmailOf(u), BcryptHash(Password))]
    /\ refresh_tokens = [t \in TokenIds |->
                            IF t \in Users
                            THEN [state |-> "stored", user_id |-> t,
                                  expires_at |-> RefreshExpiry, revoked |-> 0]
                            ELSE Unsigned]
    /\ nextToken = NumUsers + 1
    /\ now = 0
    /\ rf = [q \in Refreshes |-> RfIdle]
    /\ lo = [l \in Logouts |-> LoIdle]
    /\ la = [a \in LogoutAlls |-> LaIdle]
    /\ au = [a \in Authenticates |-> AuIdle]
    /\ rg = [r \in Registers |-> RgIdle]
    /\ lg = [l \in Logins |-> LgIdle]

InactiveNext ==
    \/ RefreshNext({1})
    \/ LoginNext({1})
    \/ AuthenticateIssued({1})
    \/ Tick

SpecInactive == InitInactive /\ [][InactiveNext]_vars

\* Logins, typed as they come, beside one register request.
SpecLogin == Init /\ [][RegisterNext({1}) \/ LoginNext(Logins)]_vars

\* One freshly created event on sale, and purchases only.
InitSale ==
    /\ \E n \in 1..MaxTickets :
          events = [e \in EventRows |-> IF e \in EventIds THEN EventRow(n, n)
                                        ELSE NoRow]
    /\ nextEventId = MaxEvents + 1
    /\ tickets = <<>>
    /\ req = [c \in Bookings |-> [event_id |-> Undefined, tickets |-> Undefined]]
    /\ cb = [c \in Bookings |-> CbIdle]
    /\ pt = [p \in Purchases |-> PtIdle]
    /\ InitChat
    /\ InitStorage
    /\ InitAuth

SpecChat == InitSale /\ [][ChatNext]_vars

\* A browser a user has logged in with: the refresh token of that login is
\* stored and Active; the access token beside it lasts 15 minutes of the
\* refresh token's 7 days, and has run out or not.
InitSignedIn ==
    /\ events = [e \in EventRows |-> NoRow]
    /\ nextEventId = 1
    /\ tickets = <<>>
    /\ req = [c \in Bookings |-> [event_id |-> Undefined, tickets |-> Undefined]]
    /\ cb = [c \in Bookings |-> CbIdle]
    /\ pt = [p \in Purchases |-> PtIdle]
    /\ InitChat
    /\ users = [u \in Users |-> IF u = 1 THEN "active" ELSE "absent"]
    /\ accounts = [u \in Users |->
                      IF u = 1 THEN Account(EmailOf(u), BcryptHash(Password))
                      ELSE NoAccount]
    /\ refresh_tokens = [t \in TokenIds |->
                            IF t = 1
                            THEN [state |-> "stored", user_id |-> 1,
                                  expires_at |-> RefreshExpiry, revoked |-> 0]
                            ELSE Unsigned]
    /\ nextToken = 2
    /\ now = 0
    /\ rf = [q \in Refreshes |-> RfIdle]
    /\ lo = [l \in Logouts |-> LoIdle]
    /\ la = [a \in LogoutAlls |-> LaIdle]
    /\ au = [a \in Authenticates |-> AuIdle]
    /\ rg = [r \in Registers |-> RgIdle]
    /\ lg = [l \in Logins |-> LgIdle]
    /\ \E exp \in 0..1 :
          localStorage = [accessToken |-> <<Jwt("access", 1, exp, "access")>>,
                          refreshToken |-> 1]
    /\ af = [k \in Calls |-> AfIdle]
    /\ outbox = <<>>

SpecBrowser == InitSignedIn /\ [][BrowserNext]_vars

SaleNext == BookingNext(NumericBodies) \/ PurchaseNext

SpecSale == InitSale /\ [][SaleNext]_vars

\* Two events on sale at once, and purchases of both.
InitTwoEvents ==
    /\ \E n \in [EventRows -> 1..MaxTickets] :
          events = [e \in EventRows |-> EventRow(n[e], n[e])]
    /\ nextEventId = OtherEvent + 1
    /\ tickets = <<>>
    /\ req = [c \in Bookings |-> [event_id |-> Undefined, tickets |-> Undefined]]
    /\ cb = [c \in Bookings |-> CbIdle]
    /\ pt = [p \in Purchases |-> PtIdle]
    /\ InitChat
    /\ InitStorage
    /\ InitAuth

TwoEventsNext == BookingNext(BodiesFor(EventRows)) \/ PurchaseOf(EventRows)

SpecTwoEvents == InitTwoEvents /\ [][TwoEventsNext]_vars

\* One event on sale, and confirm-booking requests with bodies of every shape.
SpecBookingRequests == InitSale /\ [][BookingNext(Bodies)]_vars

\* ------------------------------------------------------------------ claims

\* C1: every event row satisfies 0 <= available_tickets <= total_tickets in
\* every reachable state.
C1_AvailableWithinTotal ==
    \A e \in EventIds :
        events[e].present =>
            /\ 0 <= events[e].available_tickets
            /\ events[e].available_tickets <= events[e].total_tickets

\* C2: two confirmBooking(e, 1) requests for the last ticket of e, with no
\* I/O fault of the store: exactly one succeeds, the other fails with the
\* insufficient-inventory error, and available_tickets ends at 0.
C2_LastTicketOneWinner ==
    ( /\ events[1].total_tickets = 1
      /\ \A p \in Purchases : pt[p].pc = "idle"
      /\ \A c \in Bookings :
            /\ cb[c].pc = "done"
            /\ cb[c].eventId = 1
            /\ cb[c].ticketCount = 1
            /\ cb[c].outcome # "SQLITE_IOERR" )
    => /\ Cardinality({c \in Bookings : cb[c].outcome = "ok"}) = 1
       /\ \A c \in Bookings : cb[c].outcome \in {"ok", "Not enough tickets"}
       /\ events[1].available_tickets = 0

\* C3: purchaseTicket calls on an event that started with n tickets: once all
\* of them have finished (each with an answer), at most n succeeded and the
\* counter is n minus the number of successes.
C3_PurchasesNeverOversell ==
    ( /\ \A c \in Bookings : cb[c].pc = "idle"
      /\ \A p \in Purchases : pt[p].pc \in {"idle", "done"}
      /\ \A p \in Purchases : pt[p].outcome # "TypeError" )
    => LET succeeded == {p \in Purchases : pt[p].outcome = "ok"} IN
       /\ Cardinality(succeeded) <= events[1].total_tickets
       /\ events[1].available_tickets
            = events[1].total_tickets - Cardinality(succeeded)

\* C4: a purchase that has been reported as failed for lack of tickets does
\* not change the event's available_tickets in any of its steps.
C4_FailedPurchaseLeavesCount ==
    [][ /\ \A p \in Purchases :
              (pt[p].outcome = "No tickets available" /\ pt'[p] # pt[p])
              => events'[pt[p].eventID].available_tickets
                    = events[pt[p].eventID].available_tickets
        /\ \A c \in Bookings :
              (cb[c].outcome = "Not enough tickets" /\ cb'[c] # cb[c])
              => events'[cb[c].eventId].available_tickets
                    = events[cb[c].eventId].available_tickets ]_vars

\* C5: when confirmBooking has delivered an error, its transaction is no
\* longer open or a ROLLBACK has been issued for it.
C5_RollbackBeforeError ==
    \A c \in Bookings :
        (cb[c].outcome \in CbErrors /\ cb[c].txn) => cb[c].rollback # "none"

\* A refresh token is Active: it has a row, is not revoked and not expired.
Active(t) ==
    /\ t \in TokenIds
    /\ refresh_tokens[t].state = "stored"
    /\ refresh_tokens[t].revoked = 0
    /\ refresh_tokens[t].expires_at > now

\* The tokens a refresh has consumed, a logout has named, a logout-all found Active.
RotatedOut == {rf[r].refreshToken : r \in {x \in Refreshes : rf[x].message = Refreshed}}

LoggedOut == {lo[l].refreshToken : l \in {x \in Logouts : lo[x].status = 200}}

LoggedOutAll == UNION {la[a].activeBefore : a \in LogoutAlls}

\* Request q runs its token lookup in this step.
Looks(q) == rf[q].pc = "find" /\ rf'[q].pc # "find"

\* C6: of the refresh requests that present one token, at most one succeeds.
C6_OneRefreshPerToken ==
    \A t \in TokenIds :
        Cardinality({q \in Refreshes : /\ rf[q].refreshToken = t
                                       /\ rf[q].message = Refreshed}) <= 1

\* C7: once a refresh of a token has completed with success, every refresh
\* that looks that token up afterwards fails as revoked.
C7_RotatedTokenFails ==
    [][ \A q \in Refreshes :
            (Looks(q) /\ rf[q].refreshToken \in RotatedOut)
            => (rf'[q].pc = "done" /\ rf'[q].message = Revoked) ]_vars

\* C7 witness: tokenA was refreshed into tokenB, a later refresh of tokenA was
\* turned down as revoked, and a refresh of tokenB succeeded.
C7_Witness ==
    \E r, q, n \in Refreshes :
        /\ now = 0
        /\ rf[r].message = Refreshed
        /\ rf[q].refreshToken = rf[r].refreshToken
        /\ rf[q].message = Revoked
        /\ rf[n].refreshToken = rf[r].newToken
        /\ rf[n].message = Refreshed

\* C8: a refresh gets past its lookup only with a token that is Active at that
\* moment, and only a request that got past it mints a token and succeeds.
C8_RefreshOnlyFromActive ==
    [][ \A q \in Refreshes :
            /\ (rf'[q].pc = "user" /\ rf[q].pc # "user")
               => (rf[q].pc = "find" /\ Active(rf[q].refreshToken))
            /\ (rf'[q].pc = "store" /\ rf[q].pc # "store") => rf[q].pc = "user"
            /\ (rf'[q].pc = "revoke" /\ rf[q].pc # "revoke") => rf[q].pc = "store"
            /\ rf'[q].newToken # rf[q].newToken => rf[q].pc = "store"
            /\ (rf'[q].message = Refreshed /\ rf[q].message # Refreshed)
               => rf[q].pc = "revoke" ]_vars

\* C8 witness: one refresh succeeded, and a refresh of the token it consumed,
\* which is revoked and still unexpired, was turned down.
C8_Witness ==
    \E r, q \in Refreshes :
        /\ rf[r].message = Refreshed
        /\ rf[q].refreshToken = rf[r].refreshToken
        /\ rf[q].message = Revoked
        /\ refresh_tokens[rf[q].refreshToken].state = "stored"
        /\ refresh_tokens[rf[q].refreshToken].revoked = 1
        /\ refresh_tokens[rf[q].refreshToken].expires_at > now

\* C9: a logout with a token answers 200; a logout of a token that was logged
\* out before changes no row; a refresh that looks a logged-out token up fails.
C9_LogoutIdempotent ==
    [][ /\ \A l \in Logouts :
              (lo[l].pc = "idle" /\ lo'[l].pc = "done" /\ lo'[l].refreshToken # NoToken)
              => /\ lo'[l].status = 200
                 /\ lo'[l].refreshToken \in LoggedOut
                       => refresh_tokens' = refresh_tokens
        /\ \A q \in Refreshes :
              (Looks(q) /\ rf[q].refreshToken \in LoggedOut)
              => (rf'[q].pc = "done" /\ rf'[q].message = Revoked) ]_vars

\* C9 witness: two logouts of one token, both answered 200, and a refresh of
\* that unexpired token turned down as revoked.
C9_Witness ==
    \E l, m \in Logouts, q \in Refreshes :
        /\ l # m
        /\ now = 0
        /\ lo[l].status = 200 /\ lo[m].status = 200
        /\ lo[l].refreshToken = lo[m].refreshToken
        /\ rf[q].refreshToken = lo[l].refreshToken
        /\ rf[q].message = Revoked

\* C10: logoutAll leaves none of the user's Active tokens unrevoked, and a
\* refresh that looks one of them up after the call fails as revoked.
C10_LogoutAllRevokesActive ==
    [][ /\ \A a \in LogoutAlls :
              (la[a].pc = "idle" /\ la'[a].pc = "done")
              => \A t \in la'[a].activeBefore : refresh_tokens'[t].revoked = 1
        /\ \A q \in Refreshes :
              (Looks(q) /\ rf[q].refreshToken \in LoggedOutAll)
              => (rf'[q].pc = "done" /\ rf'[q].message = Revoked) ]_vars

\* C10 witness: a logoutAll found two Active tokens of the user, and a refresh
\* of one of them, never logged out or rotated, was turned down afterwards.
C10_Witness ==
    \E a \in LogoutAlls, q \in Refreshes :
        /\ now = 0
        /\ Cardinality(la[a].activeBefore) >= 2
        /\ rf[q].refreshToken \in la[a].activeBefore
        /\ rf[q].message = Revoked
        /\ rf[q].refreshToken \notin LoggedOut \cup RotatedOut

\* C11: the count logoutAll reports is the number of rows of that user whose
\* revoked flag the call changed from 0 to 1, and a second call for the user
\* with no token issued since the first reports 0.
C11_RevokeAllCount ==
    [][ \A a \in LogoutAlls :
            (la[a].pc = "idle" /\ la'[a].pc = "done")
            => /\ la'[a].revokedCount =
                    Cardinality({t \in TokenIds :
                        /\ refresh_tokens[t].state = "stored"
                        /\ refresh_tokens[t].user_id = la'[a].userId
                        /\ refresh_tokens[t].revoked = 0
                        /\ refresh_tokens'[t].revoked = 1})
               /\ (\E b \in LogoutAlls : /\ la[b].pc = "done"
                                          /\ la[b].userId = la'[a].userId
                                          /\ la[b].issued = nextToken - 1)
                  => la'[a].revokedCount = 0 ]_vars

\* C11 witness: a logoutAll reported two rows, and a second one for the same
\* user, with no token issued in between, reported none.
C11_Witness ==
    \E a, b \in LogoutAlls :
        /\ a # b
        /\ la[a].pc = "done" /\ la[b].pc = "done"
        /\ la[a].userId = la[b].userId
        /\ la[a].issued = la[b].issued
        /\ la[a].revokedCount = 2
        /\ la[b].revokedCount = 0

\* The rows a step changes.
Changed == {t \in TokenIds : refresh_tokens'[t] # refresh_tokens[t]}

\* C12: a register, a login and the token issue of a refresh each add exactly
\* one row, Active and owned by the user, and change no other row; the step in
\* which a refresh succeeds changes the row of the presented token, and that
\* row only, from revoked = 0 to revoked = 1.
C12_OneRowPerIssue ==
    [][ /\ nextToken' # nextToken
           => /\ Changed = {nextToken}
              /\ refresh_tokens[nextToken].state = "unsigned"
              /\ refresh_tokens'[nextToken].state = "stored"
              /\ refresh_tokens'[nextToken].revoked = 0
              /\ refresh_tokens'[nextToken].expires_at > now
              /\ users'[refresh_tokens'[nextToken].user_id] = "active"
              /\ \A q \in Refreshes :
                    rf'[q] # rf[q]
                    => refresh_tokens'[nextToken].user_id = rf[q].userId
        /\ \A q \in Refreshes :
              (rf'[q].message = Refreshed /\ rf[q].message # Refreshed)
              => /\ rf[q].newToken # NoToken
                 /\ Changed = {rf[q].refreshToken}
                 /\ refresh_tokens[rf[q].refreshToken].revoked = 0
                 /\ refresh_tokens'[rf[q].refreshToken].revoked = 1 ]_vars

\* C13: the token a refresh request presented and a token that request minted
\* are never both Active.
C13_RotationOneStep ==
    \A q \in Refreshes :
        rf[q].newToken # NoToken
        => ~(Active(rf[q].refreshToken) /\ Active(rf[q].newToken))

\* C14: for every event, the quantities of its purchase records add up to
\* total_tickets minus available_tickets.
C14_RecordsMatchDecrement ==
    \A e \in EventIds :
        events[e].present
        => QuantitySold(tickets, e)
              = events[e].total_tickets - events[e].available_tickets

\* Request p (purchaseTicket) or c (confirmBooking) gets the answer of its
\* SELECT, or of its UPDATE, in this step, and the store did not fail.
PtSelects(p) ==
    pt[p].pc = "select" /\ pt'[p].pc # "select" /\ pt'[p].outcome \notin StoreErrors

CbSelects(c) ==
    cb[c].pc = "select" /\ cb'[c].pc # "select" /\ cb'[c].outcome \notin StoreErrors

PtUpdates(p) ==
    pt[p].pc = "update" /\ pt'[p].pc # "update" /\ pt'[p].outcome \notin StoreErrors

CbUpdates(c) ==
    cb[c].pc = "update" /\ cb'[c].pc # "update" /\ cb'[c].outcome \notin StoreErrors

\* C15: a booking that takes all the tickets that are left commits a count of
\* 0; from then on the count stays 0, and every purchase that reads the
\* sold-out event fails for lack of tickets.
C15_SoldOutStaysSoldOut ==
    [][ \A e \in EventIds :
          /\ \A c \in Bookings :
                ( /\ cb[c].pc = "commit" /\ cb'[c].outcome = "ok"
                  /\ cb[c].eventId = e
                  /\ cb[c].ticketCount = events[e].available_tickets )
                => events'[e].available_tickets = 0
          /\ (events[e].present /\ events[e].available_tickets = 0)
             => /\ events'[e].available_tickets = 0
                /\ \A p \in Purchases :
                      (PtSelects(p) /\ pt[p].eventID = e)
                      => pt'[p].outcome = "No tickets available"
                /\ \A c \in Bookings :
                      (CbSelects(c) /\ cb[c].eventId = e)
                      => cb'[c].outcome = "Not enough tickets" ]_vars

\* C16: the response to a purchase that failed for lack of tickets carries
\* the available_tickets value the operation read.
C16_FailureCarriesCount ==
    [][ /\ \A c \in Bookings :
              (CbSelects(c) /\ cb'[c].outcome = "Not enough tickets")
              => /\ "remaining" \in DOMAIN CbResponse(cb'[c])
                 /\ CbResponse(cb'[c]).remaining
                       = events[cb[c].eventId].available_tickets
        /\ \A p \in Purchases :
              (PtSelects(p) /\ pt'[p].outcome = "No tickets available")
              => /\ "remaining" \in DOMAIN PtResponse(pt'[p])
                 /\ PtResponse(pt'[p]).remaining
                       = events[pt[p].eventID].available_tickets ]_vars

\* C17: a purchase whose UPDATE finds no row of the event fails with 'Event
\* not found', reported as 404, and the step changes no event row.
C17_VanishedRowNotFound ==
    [][ /\ \A p \in Purchases :
              (PtUpdates(p) /\ ~events[pt[p].eventID].present)
              => /\ pt'[p].outcome = "Event not found"
                 /\ PtStatus(pt'[p].outcome) = 404
                 /\ events' = events
        /\ \A c \in Bookings :
              (CbUpdates(c) /\ ~CbView(c).present)
              => /\ cb'[c].outcome = "Event not found"
                 /\ CbStatus(cb'[c].outcome) = 404
                 /\ events' = events ]_vars

\* C18: a purchase or a booking whose SELECT finds no row of the event fails
\* with 'Event not found', reported as 404, and neither that step nor a later
\* step of the request changes an event row.
C18_MissingEventNotFound ==
    [][ /\ \A p \in Purchases :
              (PtSelects(p) /\ ~events[pt[p].eventID].present)
              => /\ pt'[p].pc = "done"
                 /\ pt'[p].outcome = "Event not found"
                 /\ PtStatus(pt'[p].outcome) = 404
                 /\ events' = events
        /\ \A c \in Bookings :
              /\ (CbSelects(c) /\ ~events[cb[c].eventId].present)
                 => /\ cb'[c].outcome = "Event not found"
                    /\ CbStatus(cb'[c].outcome) = 404
                    /\ events' = events
              /\ (cb[c].outcome = "Event not found" /\ cb'[c] # cb[c])
                 => events' = events ]_vars

\* C18 witness: with no event ever created, a booking and a purchase have
\* both been answered 'Event not found', the booking rolled back.
C18_Witness ==
    /\ nextEventId = 1
    /\ \E c \in Bookings : /\ cb[c].pc = "done"
                            /\ cb[c].outcome = "Event not found"
                            /\ cb[c].rollback = "done"
    /\ \E p \in Purchases : pt[p].pc = "done" /\ pt[p].outcome = "Event not found"

\* What a body field is: missing, not a number, a number of some value.
Missing(value) == value.type = "undefined"

NotANumber(value) ==
    \/ value.type = "string" /\ value.s = <<>>
    \/ value.type = "string" /\ value.s = <<"a", "b", "c">>

IsNumber(value, n) ==
    \/ value = Number(n)
    \/ n = 0 /\ value = String(<<"0">>)
    \/ n = 0 - 1 /\ value = String(<<"-", "1">>)

HasBearer(header) ==
    /\ Len(header) = 3
    /\ header[1] = Word("Bearer") /\ header[2] = Space /\ header[3] # Space

GoodAccessToken(token) ==
    /\ token.kind = "jwt"
    /\ token.secret = "access" /\ token.type = "access"
    /\ now < token.exp

Turned(a, error) ==
    /\ au'[a].pc = "done"
    /\ au'[a].status = 401 /\ au'[a].error = error
    /\ ~au'[a].next /\ au'[a].user = 0

\* C20: authenticate calls next(), with req.user set to the subject, exactly
\* for a Bearer header whose token is a good access token when it is verified
\* and whose subject is an active user when it is looked up; without a Bearer
\* credential it answers 401 'Authentication required', with a token that
\* fails verification 401 'Invalid token', with a missing or inactive subject
\* 401 'User not found', and then neither calls next() nor sets req.user.
C20_AuthenticateIff ==
    [][ \A a \in Authenticates :
          /\ (au[a].pc = "idle" /\ au'[a].pc # "idle")
             => LET header == au'[a].header IN
                /\ ~HasBearer(header) => Turned(a, "Authentication required")
                /\ (HasBearer(header) /\ ~GoodAccessToken(header[3]))
                   => Turned(a, "Invalid token")
                /\ (HasBearer(header) /\ GoodAccessToken(header[3]))
                   => /\ au'[a].pc = "findUser"
                      /\ au'[a].userId = header[3].userId
                      /\ ~au'[a].next /\ au'[a].user = 0 /\ au'[a].status = 0
          /\ (au[a].pc = "findUser" /\ au'[a].pc # "findUser")
             => IF users[au[a].userId] = "active"
                THEN /\ au'[a].pc = "done" /\ au'[a].next
                     /\ au'[a].user = au[a].header[3].userId
                     /\ au'[a].status = 0
                ELSE Turned(a, "User not found")
          /\ (au'[a].next # au[a].next \/ au'[a].user # au[a].user)
             => au[a].pc = "findUser" ]_vars

\* C20 witness: one request went through with req.user set, and one with a
\* good access token of a deactivated user was answered 'User not found'.
C20_Witness ==
    \E a, b \in Authenticates :
        /\ au[a].pc = "done" /\ au[a].next /\ au[a].user # 0
        /\ au[b].pc = "done" /\ au[b].error = "User not found"
        /\ users[au[b].userId] = "inactive"

\* A valid password; the typed email names a registered address once it is
\* lower-cased and trimmed.
Registered(email) ==
    \E u \in Users :
        /\ users[u] # "absent"
        /\ Trim(ToLowerCase(accounts[u].email)) = Trim(ToLowerCase(email))

\* C22: a register request (with a valid password) for an email that is
\* registered once both are lower-cased and trimmed is passed on to the store
\* and fails there with 409 'Email already exists', changing no user row and
\* no refresh-token row; no two user rows hold the same normalized email.
C22_DuplicateEmailConflict ==
    [][ /\ \A r \in Registers :
              /\ ( /\ rg[r].pc = "idle" /\ rg'[r].pc # "idle"
                    /\ ~WeakPassword(rg'[r].password)
                    /\ Registered(rg'[r].email) )
                 => rg'[r].pc = "select"
              /\ (rg[r].pc = "select" /\ rg'[r].pc # "select" /\ Registered(rg[r].email))
                 => /\ rg'[r].pc = "done" /\ rg'[r].status = 409
                    /\ users' = users /\ accounts' = accounts
                    /\ refresh_tokens' = refresh_tokens
        /\ \A u, v \in Users :
              (u # v /\ users[u] # "absent" /\ users[v] # "absent")
              => Trim(ToLowerCase(accounts[u].email))
                    # Trim(ToLowerCase(accounts[v].email)) ]_vars

\* C21: of every issued pair, the refresh token fails verifyAccessToken and
\* the access token fails verifyRefreshToken; authenticate answers a Bearer
\* refresh token with 401 'Invalid token', and the refresh endpoint answers an
\* access token with 401 in its first step, without touching the store.
C21_TokenKindsApart ==
    [][ /\ \A t \in Handed :
              /\ VerifyAccessToken(<<Decoded(t)>>) # "ok"
              /\ VerifyRefreshToken(AccessTokenOf(t)) # "ok"
        /\ \A a \in Authenticates :
              ( /\ au[a].pc = "idle" /\ au'[a].pc # "idle"
                /\ HasBearer(au'[a].header)
                /\ au'[a].header[3].type = "refresh" )
              => Turned(a, "Invalid token")
        /\ \A q \in Refreshes :
              ( /\ rf[q].pc = "idle" /\ rf'[q].pc # "idle"
                /\ Decoded(rf'[q].refreshToken).type = "access" )
              => /\ rf'[q].pc = "done"
                 /\ RfStatus(rf'[q].message) = 401
                 /\ rf'[q].newToken = NoToken
                 /\ refresh_tokens' = refresh_tokens ]_vars

\* C21 witness: an unexpired refresh token was turned down by authenticate,
\* and the unexpired access token of a pair by the refresh endpoint.
C21_Witness ==
    \E a \in Authenticates, q \in Refreshes :
        /\ au[a].pc = "done" /\ au[a].error = "Invalid token"
        /\ au[a].header[3].type = "refresh" /\ now < au[a].header[3].exp
        /\ rf[q].pc = "done" /\ rf[q].message = "Invalid refresh token"
        /\ Decoded(rf[q].refreshToken).type = "access"
        /\ now < Decoded(rf[q].refreshToken).exp

\* Two strings that differ in the case of letters only.
CaseVariant(typed, stored) ==
    /\ Len(typed) = Len(stored)
    /\ \A i \in DOMAIN typed :
          \/ typed[i] = stored[i]
          \/ \E k \in DOMAIN LowerCase :
                {typed[i], stored[i]} = {LowerCase[k], UpperCase[k]}

\* C23: a login that names an active user's registered email in any letter
\* case, with the password the user registered, is resolved to that user's
\* row and answered 200 with a token of that user.
C23_LoginCaseInsensitive ==
    [][ \A l \in Logins :
          /\ \A u \in Users :
                ( /\ lg[l].pc = "idle" /\ lg'[l].pc # "idle"
                  /\ users[u] = "active"
                  /\ CaseVariant(lg'[l].email, accounts[u].email)
                  /\ BcryptCompare(lg'[l].password, accounts[u].password_hash) )
                => (lg'[l].pc = "touch" /\ lg'[l].userId = u)
          /\ (lg[l].pc = "store" /\ lg'[l].pc # "store")
             => /\ lg'[l].pc = "done" /\ lg'[l].status = 200
                /\ refresh_tokens'[lg'[l].newToken].user_id = lg[l].userId ]_vars

\* C23 witness: a login typed in upper case was answered 200 for the user
\* registered in lower case.
C23_Witness ==
    \E l \in Logins :
        /\ lg[l].pc = "done" /\ lg[l].status = 200
        /\ lg[l].email # accounts[lg[l].userId].email
        /\ CaseVariant(lg[l].email, accounts[lg[l].userId].email)
        /\ \E r \in Registers : rg[r].status = 201 /\ rg[r].userId = lg[l].userId

\* The user a request's bearer token names, 0 when it carries none.
BearerSubject(header) ==
    IF Len(header) = 3 /\ header[3].kind = "jwt" THEN header[3].userId ELSE 0

Inactive(u) == u \in Users /\ users[u] = "inactive"

\* C24: a user whose row has is_active = 0 is answered 401 by login (with
\* any password given, the right one too), by refresh (with an Active token
\* too) and by authenticate (with a good access token too); none of them
\* goes on for that user.
C24_InactiveShutOut ==
    [][ /\ \A l \in Logins :
              /\ ( /\ lg[l].pc = "idle" /\ lg'[l].pc # "idle"
                    /\ lg'[l].password # <<>>
                    /\ \E u \in Users :
                          /\ Inactive(u)
                          /\ CaseVariant(lg'[l].email, accounts[u].email) )
                 => (lg'[l].pc = "done" /\ lg'[l].status = 401)
              /\ lg'[l].pc \in {"touch", "store"} => ~Inactive(lg'[l].userId)
        /\ \A q \in Refreshes :
              /\ ( /\ rf[q].pc # "done" /\ rf'[q].pc = "done"
                    /\ rf'[q].refreshToken \in TokenIds
                    /\ Inactive(refresh_tokens[rf'[q].refreshToken].user_id) )
                 => RfStatus(rf'[q].message) = 401
              /\ rf'[q].pc \in {"store", "revoke"} => ~Inactive(rf'[q].userId)
        /\ \A a \in Authenticates :
              ( /\ au[a].pc # "done" /\ au'[a].pc = "done"
                /\ Inactive(BearerSubject(au'[a].header)) )
              => (au'[a].status = 401 /\ ~au'[a].next /\ au'[a].user = 0) ]_vars

\* C24 witness: an inactive user was turned away at all three doors, with
\* the right password, an Active refresh token and a good access token.
C24_Witness ==
    \E u \in Users :
        /\ Inactive(u)
        /\ \E l \in Logins :
              /\ lg[l].pc = "done" /\ lg[l].status = 401
              /\ lg[l].email = accounts[u].email
              /\ BcryptCompare(lg[l].password, accounts[u].password_hash)
        /\ \E q \in Refreshes :
              /\ rf[q].pc = "done" /\ rf[q].refreshToken = u
              /\ Active(u)
              /\ rf[q].message = "The user associated with this token no longer exists."
        /\ \E a \in Authenticates :
              /\ au[a].pc = "done" /\ au[a].status = 401
              /\ au[a].error = "User not found"
              /\ BearerSubject(au[a].header) = u

NoUser == "The user associated with this token no longer exists."

\* C27: a refresh whose token passed the lookup and whose user is missing or
\* inactive is answered 401 'User not found'; it stores no row and leaves
\* the presented row, and every other, as it was.
C27_RefreshWithoutUser ==
    [][ \A q \in Refreshes :
          ( /\ rf[q].pc = "user" /\ rf'[q].pc # "user"
            /\ users[rf[q].userId] # "active" )
          => /\ rf'[q].pc = "done"
             /\ rf'[q].message = NoUser /\ RfStatus(rf'[q].message) = 401
             /\ rf'[q].newToken = NoToken
             /\ refresh_tokens' = refresh_tokens
             /\ nextToken' = nextToken ]_vars

\* C27 witness: refreshes with Active tokens of a missing and of an inactive
\* user were answered 'User not found', and the tokens are still Active.
C27_Witness ==
    \E q \in Refreshes :
        /\ rf[q].pc = "done" /\ rf[q].message = NoUser
        /\ Active(rf[q].refreshToken)
        /\ users[refresh_tokens[rf[q].refreshToken].user_id] \in {"absent", "inactive"}
        /\ nextToken = NumUsers + 1

\* Why a presented token is refused: its signature, its expiry, its revocation.
BadSignature(token) == token = BadToken

Expired(token) ==
    /\ token \in TokenIds /\ refresh_tokens[token].state = "stored"
    /\ now >= refresh_tokens[token].expires_at

RevokedRow(token) ==
    /\ token \in TokenIds /\ refresh_tokens[token].state = "stored"
    /\ refresh_tokens[token].revoked = 1

\* C25: a refresh refused for a revoked token, for an expired token or for a
\* token with an invalid signature gets one and the same response, status
\* and body: the one an invalid token gets.
C25_RefusalsAlike ==
    [][ \A q \in Refreshes :
          ( /\ rf[q].pc # "done" /\ rf'[q].pc = "done"
            /\ \/ BadSignature(rf'[q].refreshToken)
               \/ Expired(rf'[q].refreshToken)
               \/ RevokedRow(rf'[q].refreshToken) )
          => RfResponse(rf'[q].message) = RfResponse("Invalid refresh token") ]_vars

\* A token whose row is revoked, or was deleted by the sweep.
Dead(t) ==
    /\ t \in TokenIds
    /\ \/ refresh_tokens[t].state = "deleted"
       \/ refresh_tokens[t].state = "stored" /\ refresh_tokens[t].revoked = 1

\* C26: a revoked row stays revoked until the sweep deletes it, and a deleted
\* row never comes back; the lookup of a refresh never selects such a
\* token again, whatever register, login, refresh, logout, logout-all and
\* cleanup do in between.
C26_RevocationPermanent ==
    [][ /\ \A t \in TokenIds :
              Dead(t) => /\ Dead(t)'
                         /\ ~FindRefreshToken(t)
                         /\ ~FindRefreshToken(t)'
        /\ \A q \in Refreshes :
              (Looks(q) /\ Dead(rf[q].refreshToken))
              => (rf'[q].pc = "done" /\ rf'[q].message = Revoked) ]_vars

\* C26 witness: a token revoked by a logout was presented to refresh after
\* other users' tokens were issued, and was refused as revoked.
C26_Witness ==
    \E q \in Refreshes, l \in Logouts :
        /\ lo[l].status = 200
        /\ rf[q].pc = "done" /\ rf[q].message = Revoked
        /\ rf[q].refreshToken = lo[l].refreshToken
        /\ RevokedRow(rf[q].refreshToken)
        /\ nextToken > rf[q].refreshToken + 1

\* A step that deletes a row: the sweep.
Sweeps == \E t \in TokenIds : refresh_tokens[t].state = "stored"
                              /\ refresh_tokens'[t].state = "deleted"

C29_BookingPayload ==
    [][ \A c \in Bookings :
          LET e == cb[c].eventId
              q == cb[c].ticketCount
              a == events[e].available_tickets
          IN  /\ (cb[c].pc = "commit" /\ cb'[c].outcome = "ok")
                 => /\ CbResponse(cb'[c]).tickets_booked = q
                    /\ CbResponse(cb'[c]).remaining_tickets = a - q
                    /\ events'[e].available_tickets = a - q
                    /\ CbStatus(cb'[c].outcome) = 200
              /\ (cb[c].lock # "none" /\ cb'[c].outcome # "ok")
                 => events'[e] = events[e] ]_vars

\* C29 witness: a booking of 2 of 2 tickets was confirmed with
\* remaining_tickets = 0 and the row holds 0.
C29_Witness ==
    \E c \in Bookings :
        /\ cb[c].pc = "done" /\ cb[c].outcome = "ok"
        /\ cb[c].ticketCount = MaxTickets
        /\ CbResponse(cb[c]).tickets_booked = MaxTickets
        /\ CbResponse(cb[c]).remaining_tickets = 0
        /\ events[cb[c].eventId].available_tickets = 0

\* A purchase writes the count of event e in this step.
PurchaseWrites(e) ==
    \/ \E p \in Purchases :
          pt[p].pc = "update" /\ pt'[p].pc = "done" /\ pt[p].eventID = e
    \/ \E c \in Bookings :
          cb[c].pc = "commit" /\ cb'[c].outcome = "ok" /\ cb[c].eventId = e

\* C30: the available_tickets of an event that exists changes in purchase
\* steps only; an updateEvent, whatever fields it is given (total_tickets
\* and an attempted available_tickets among them), leaves it as it was.
C30_UpdateKeepsAvailable ==
    [][ \A e \in EventIds :
          (events[e].present /\ events'[e].present)
          => /\ events'[e].available_tickets # events[e].available_tickets
                => PurchaseWrites(e)
             /\ events'[e].total_tickets # events[e].total_tickets
                => events'[e].available_tickets = events[e].available_tickets ]_vars

\* C30 witness: an updateEvent has lowered total_tickets below the count of
\* available tickets, which no purchase has touched.
C30_Witness ==
    \E e \in EventIds :
        /\ events[e].present
        /\ events[e].total_tickets < events[e].available_tickets
        /\ events[e].available_tickets = MaxTickets
        /\ \A p \in Purchases : pt[p].pc = "idle"
        /\ \A c \in Bookings : cb[c].pc = "idle"

\* C32: the row createEvent inserts has available_tickets equal to
\* total_tickets: a new event starts with its whole inventory unsold.
C32_CreatedEventUnsold ==
    [][ \A e \in EventIds :
          (~events[e].present /\ events'[e].present)
          => /\ events'[e].available_tickets = events'[e].total_tickets
             /\ events'[e].total_tickets > 0
             /\ nextEventId' = e + 1 ]_vars

\* C32 witness: an event created with the largest inventory holds it whole.
C32_Witness ==
    \E e \in EventIds :
        /\ events[e].present /\ nextEventId = e + 1
        /\ events[e].total_tickets = MaxTickets
        /\ events[e].available_tickets = MaxTickets

\* C33: of two register requests for the same normalized email that have
\* both been answered by the store, one got 201 and the other 409, and one
\* user row and one refresh-token row exist for the email.
C33_ConcurrentRegisterOneWins ==
    \A r1, r2 \in Registers :
        ( /\ r1 # r2
          /\ rg[r1].pc = "done" /\ rg[r2].pc = "done"
          /\ rg[r1].status # 400 /\ rg[r2].status # 400
          /\ Trim(ToLowerCase(rg[r1].email)) = Trim(ToLowerCase(rg[r2].email)) )
        => /\ {rg[r1].status, rg[r2].status} = {201, 409}
           /\ Cardinality({u \in Users : Registered(rg[r1].email)
                                         /\ users[u] # "absent"
                                         /\ accounts[u].email
                                              = Trim(ToLowerCase(rg[r1].email))}) = 1
           /\ Cardinality({t \in TokenIds :
                             /\ refresh_tokens[t].state = "stored"
                             /\ accounts[refresh_tokens[t].user_id].email
                                  = Trim(ToLowerCase(rg[r1].email))}) = 1

\* C34: once a logoutAll of a user is done, every Active token of the user
\* descends from a later login or registration: none was issued by a refresh
\* of a token that the logoutAll found signed already.
C34_LogoutAllOutlastsRefresh ==
    \A a \in LogoutAlls, q \in Refreshes :
        ( /\ la[a].pc = "done"
          /\ Active(rf[q].newToken)
          /\ refresh_tokens[rf[q].newToken].user_id = la[a].userId
          /\ rf[q].newToken > la[a].issued )
        => rf[q].refreshToken > la[a].issued

\* C35: authenticate does not look at the refresh-token store: the access
\* token of a pair whose refresh token was revoked by logout, logoutAll or
\* rotation is verified like any other, accepted while it has not expired
\* and its user is active, and the request goes on to next().
C35_AccessOutlivesRevocation ==
    [][ \A a \in Authenticates :
          /\ (au[a].pc = "idle" /\ au'[a].pc # "idle")
             => LET token == au'[a].header[3] IN
                IF now < token.exp
                THEN au'[a].pc = "findUser" /\ au'[a].userId = token.userId
                ELSE au'[a].pc = "done" /\ au'[a].status = 401
          /\ (au[a].pc = "findUser" /\ au'[a].pc # "findUser"
                /\ users[au[a].userId] = "active")
             => /\ au'[a].pc = "done" /\ au'[a].next
                /\ au'[a].user = au[a].userId ]_vars

\* C35 witness: requests went through with the access tokens of a pair whose
\* refresh token was logged out and of a pair whose refresh token was
\* rotated out.
C35_Witness ==
    \E a, b \in Authenticates :
        /\ au[a].pc = "done" /\ au[a].next
        /\ au[b].pc = "done" /\ au[b].next
        /\ au[a].header # au[b].header
        /\ \E t \in LoggedOut \cup LoggedOutAll :
              au[a].header = Bearer(Decoded(AccessTokenOf(t)))
        /\ \E t \in RotatedOut :
              au[b].header = Bearer(Decoded(AccessTokenOf(t)))

\* C38: a logout changes no row but that of the presented token, so every
\* other token of the same user and every token of other users keeps its
\* revoked flag; a logoutAll of user U changes no row of another user.
C38_LogoutFrame ==
    [][ /\ \A l \in Logouts :
              (lo[l].pc = "idle" /\ lo'[l].pc = "done")
              => \A t \in TokenIds :
                    t # lo'[l].refreshToken => refresh_tokens'[t] = refresh_tokens[t]
        /\ \A a \in LogoutAlls :
              (la[a].pc = "idle" /\ la'[a].pc = "done")
              => \A t \in TokenIds :
                    refresh_tokens[t].user_id # la'[a].userId
                    => refresh_tokens'[t] = refresh_tokens[t] ]_vars

\* C38 witness: after the logout of one token of a user and the logoutAll of
\* another user, the first user's other token is still Active.
C38_Witness ==
    \E l \in Logouts, a \in LogoutAlls, t \in TokenIds :
        /\ lo[l].status = 200 /\ RevokedRow(lo[l].refreshToken)
        /\ t # lo[l].refreshToken /\ Active(t)
        /\ refresh_tokens[t].user_id = refresh_tokens[lo[l].refreshToken].user_id
        /\ la[a].pc = "done" /\ la[a].revokedCount >= 1
        /\ la[a].userId # refresh_tokens[t].user_id

\* C39: a login answered 400 or 401 (a missing field, an unknown or inactive
\* email, a wrong password) stores no refresh-token row and leaves last_login
\* and the rest of the users table as they were; a refresh answered 400 or
\* 401 has written nothing to the refresh-token store in any of its steps.
C39_FailuresWriteNothing ==
    [][ /\ \A l \in Logins :
              (lg[l].pc = "idle" /\ lg'[l].pc = "done")
              => /\ lg'[l].status \in {400, 401}
                 /\ lg'[l].newToken = NoToken
                 /\ refresh_tokens' = refresh_tokens /\ nextToken' = nextToken
                 /\ accounts' = accounts /\ users' = users
        /\ \A q \in Refreshes :
              /\ (rf[q].pc \in {"idle", "find", "user"} /\ rf'[q] # rf[q])
                 => refresh_tokens' = refresh_tokens /\ nextToken' = nextToken
              /\ (rf'[q].pc = "done" /\ RfStatus(rf'[q].message) \in {400, 401})
                 => /\ rf[q].pc \in {"idle", "find", "user", "done"}
                    /\ rf'[q].newToken = NoToken ]_vars

\* C39 witness: a login with a wrong password for an active user, whose
\* last_login is still NULL, and a refresh refused with 401, both answered,
\* with no token stored since the start.
C39_Witness ==
    \E l \in Logins, q \in Refreshes :
        /\ lg[l].pc = "done" /\ lg[l].status = 401
        /\ lg[l].password # <<>> /\ lg[l].password # Password
        /\ \E u \in Users : users[u] = "active" /\ lg[l].email = accounts[u].email
                              /\ accounts[u].last_login = Null
        /\ rf[q].pc = "done" /\ RfStatus(rf[q].message) = 401
        /\ nextToken = NumUsers + 1

\* C40: a step of a purchase on one event, by purchaseTicket or by
\* confirmBooking, successful or failed, leaves the available_tickets and
\* total_tickets of every other event as they were, however the purchases
\* on the other event are interleaved with it.
C40_OtherEventsUntouched ==
    [][ \A b \in EventRows :
          /\ \A p \in Purchases :
                (pt'[p] # pt[p] /\ pt'[p].eventID # b) => events'[b] = events[b]
          /\ \A c \in Bookings :
                (cb'[c] # cb[c] /\ cb'[c].eventId # b) => events'[b] = events[b] ]_vars

\* C40 witness: a purchaseTicket on one event and a confirmBooking on the
\* other have both succeeded, and each event has lost what its own purchase
\* took.
C40_Witness ==
    \E p \in Purchases, c \in Bookings :
        /\ pt[p].pc = "done" /\ pt[p].outcome = "ok" /\ pt[p].eventID = 1
        /\ cb[c].pc = "done" /\ cb[c].outcome = "ok" /\ cb[c].eventId = OtherEvent
        /\ events[1].available_tickets = events[1].total_tickets - 1
        /\ events[OtherEvent].available_tickets
              = events[OtherEvent].total_tickets - cb[c].ticketCount
        /\ \A r \in Purchases \ {p} : pt[r].pc = "idle"
        /\ \A d \in Bookings \ {c} : cb[d].pc = "idle"

\* The confirmation prompts of the conversation.
Prompts == {i \in DOMAIN messages : messages[i].needsConfirmation}

\* The requests posted from prompt i whose booking was committed.
Booked(i) == {k \in DOMAIN sent : sent[k].message = i /\ cb[k].outcome = "ok"}

C37_PromptUsedOnce ==
    [][ /\ \A i \in DOMAIN messages' :
              Cardinality({k \in DOMAIN sent' : sent'[k].message = i
                                                /\ cb'[k].outcome = "ok"}) <= 1
        /\ sent' # sent => ~(Cardinality(Prompts) = 1 /\ pendingBooking = NoBooking) ]_vars

\* C36: in a browser that holds an Active refresh token no call removes the
\* stored tokens or ends at /login, whatever calls of authenticatedFetch and
\* of the refresh interval run at once.
C36_NeverLoggedOut ==
    /\ \A k \in Calls : af[k].pc # "login"
    /\ localStorage.refreshToken # NoToken

====
